---------------------------- MODULE Spec2Model ----------------------------
(***************************************************************************)
(* The FxA state machine of components/fxa-client/src/state_machine:       *)
(* the public states and events (types.rs), the transition logic of the   *)
(* five sub-machines (logic.rs) and the driver FxaStateMachine (mod.rs),  *)
(* called by several threads that share one machine.                      *)
(***************************************************************************)
EXTENDS Naturals, Sequences, FiniteSets, TLC

(***************************************************************************)
(* Bounds and inputs                                                       *)
(***************************************************************************)
\* Number of threads that call state() and process_event on the one machine.
NumThreads == 2

Threads == 1..NumThreads

\* The events of a machine's lifetime are counted up to this number.
MaxCounted == 2

\* No thread: the value of a free lock.
NoThread == 0

\* mod.rs:23
MAX_INTERNAL_TRANSITIONS == 20

\* URLs the account's begin_oauth_flow / begin_pairing_flow may return.
OAuthUrls == {"http://example.com/oauth-start", "http://example.com/oauth-other"}

\* The public errors convert_log_report_error may produce for a failed
\* account call; only Authentication is told apart by the driver.
FxaErrors == {"Authentication", "Network", "Other"}

(***************************************************************************)
(* types.rs: FxaState                                                      *)
(***************************************************************************)
Uninitialized == [tag |-> "Uninitialized"]
Disconnected == [tag |-> "Disconnected"]
Authenticating(oauth_url) == [tag |-> "Authenticating", oauth_url |-> oauth_url]
Connected == [tag |-> "Connected"]
AuthIssues == [tag |-> "AuthIssues"]

FxaState ==
    {Uninitialized, Disconnected, Connected, AuthIssues}
        \cup {Authenticating(u) : u \in OAuthUrls}

(***************************************************************************)
(* types.rs: FxaEvent.  The payloads are the ones of the unit tests.       *)
(***************************************************************************)
Initialize == [type |-> "Initialize"]
BeginOAuthFlow(scopes, entrypoint) ==
    [type |-> "BeginOAuthFlow", scopes |-> scopes, entrypoint |-> entrypoint]
BeginPairingFlow(pairing_url, scopes, entrypoint) ==
    [type |-> "BeginPairingFlow", pairing_url |-> pairing_url,
     scopes |-> scopes, entrypoint |-> entrypoint]
CompleteOAuthFlow(code, st) ==
    [type |-> "CompleteOAuthFlow", code |-> code, state |-> st]
CancelOAuthFlow == [type |-> "CancelOAuthFlow"]
CheckAuthorizationStatus == [type |-> "CheckAuthorizationStatus"]
Disconnect == [type |-> "Disconnect"]

FxaEvent ==
    {Initialize, CancelOAuthFlow, CheckAuthorizationStatus, Disconnect,
     BeginOAuthFlow(<<"profile">>, "test-entrypoint"),
     BeginPairingFlow("https://example.com/pairing-url", <<"profile">>,
                      "test-entrypoint"),
     CompleteOAuthFlow("test-code", "test-state")}

(***************************************************************************)
(* types.rs: InternalState, one variant per public state                   *)
(***************************************************************************)
\* An internal state is the record [pub, sub, payload...]: `pub` names the
\* variant of InternalState, `sub` the variant of the sub-machine's enum,
\* and the payload fields are those of the variant.
InternalStatePubs ==
    {"Uninitialized", "Disconnected", "Authenticating", "Connected", "AuthIssues"}

(***************************************************************************)
(* types.rs: InternalEvent and CallErrorKind                               *)
(***************************************************************************)
GetAuthStateSuccess(auth_state) ==
    [ev |-> "GetAuthStateSuccess", auth_state |-> auth_state]
BeginOAuthFlowSuccess(oauth_url) ==
    [ev |-> "BeginOAuthFlowSuccess", oauth_url |-> oauth_url]
BeginPairingFlowSuccess(oauth_url) ==
    [ev |-> "BeginPairingFlowSuccess", oauth_url |-> oauth_url]
CompleteOAuthFlowSuccess == [ev |-> "CompleteOAuthFlowSuccess"]
InitializeDeviceSuccess == [ev |-> "InitializeDeviceSuccess"]
EnsureDeviceCapabilitiesSuccess == [ev |-> "EnsureDeviceCapabilitiesSuccess"]
CheckAuthorizationStatusSuccess(active) ==
    [ev |-> "CheckAuthorizationStatusSuccess", active |-> active]
DisconnectSuccess == [ev |-> "DisconnectSuccess"]
CallError(kind) == [ev |-> "CallError", kind |-> kind]

\* FxaRustAuthState, the value of get_auth_state()
FxaRustAuthState == {"Disconnected", "AuthIssues", "Connected"}

(***************************************************************************)
(* logic.rs: InternalStateTransition                                       *)
(***************************************************************************)
Process(internal_state) == [t |-> "Process", s |-> internal_state]
Complete(public_state) == [t |-> "Complete", p |-> public_state]
Cancel == [t |-> "Cancel"]

\* Mutant of invalid_transition: an unmatched pair completes with
\* Disconnected.
invalid_transition_completes == [t |-> "Complete", p |-> [tag |-> "Disconnected"]]

\* logic.rs:255  report the anomaly, then Cancel
invalid_transition == Cancel


\* Mutant of convert: every sub-machine's state is wrapped into the
\* Disconnected variant.
convert_into_disconnected(tr, pub) ==
    IF tr.t = "Process" THEN Process([pub |-> "Disconnected"] @@ tr.s) ELSE tr

\* logic.rs:42  InternalStateTransition<T>::convert: wrap the sub-machine's
\* state into the InternalState variant `pub`
convert(tr, pub) ==
    IF tr.t = "Process" THEN Process([pub |-> pub] @@ tr.s) ELSE tr

(***************************************************************************)
(* logic.rs:85  impl InternalStateLogic for UninitializedState             *)
(***************************************************************************)
\* Mutant of UninitializedState::start_transition: every event starts the
\* initialization.
UninitializedState_start_transition_any_event(public_state, event) ==
    Process([sub |-> "GetAuthState"])

UninitializedState_start_transition(public_state, event) ==
    IF event.type = "Initialize"
    THEN Process([sub |-> "GetAuthState"])
    ELSE invalid_transition

\* Mutant of UninitializedState::transition: a Disconnected account goes on to
\* EnsureDeviceCapabilities too.
UninitializedState_transition_always_ensures(self, event) ==
    CASE self.sub = "GetAuthState" /\ event.ev = "GetAuthStateSuccess" ->
            ( CASE event.auth_state = "Disconnected" ->
                        Process([sub |-> "EnsureDeviceCapabilities"])
                [] event.auth_state = "AuthIssues" -> Complete(Connected)
                [] event.auth_state = "Connected" ->
                        Process([sub |-> "EnsureDeviceCapabilities"]) )
      [] self.sub = "EnsureDeviceCapabilities"
            /\ event.ev = "EnsureDeviceCapabilitiesSuccess" -> Complete(Connected)
      [] self.sub = "EnsureDeviceCapabilities" /\ event.ev = "CallError" ->
            ( CASE event.kind = "Auth" ->
                        Process([sub |-> "CheckAuthorizationStatus"])
                [] event.kind = "Other" -> Complete(Disconnected) )
      [] self.sub = "CheckAuthorizationStatus"
            /\ event.ev = "CheckAuthorizationStatusSuccess"
            /\ event.active -> Complete(Connected)
      [] self.sub = "CheckAuthorizationStatus"
            /\ event.ev = "CheckAuthorizationStatusSuccess"
            /\ ~event.active -> Complete(AuthIssues)
      [] self.sub = "CheckAuthorizationStatus" /\ event.ev = "CallError" ->
            Complete(AuthIssues)
      [] OTHER -> invalid_transition

\* Mutant of UninitializedState::transition: AuthIssues at start-up completes
\* with AuthIssues.
UninitializedState_transition_auth_issues(self, event) ==
    CASE self.sub = "GetAuthState" /\ event.ev = "GetAuthStateSuccess" ->
            ( CASE event.auth_state = "Disconnected" -> Complete(Disconnected)
                [] event.auth_state = "AuthIssues" -> Complete(AuthIssues)
                [] event.auth_state = "Connected" ->
                        Process([sub |-> "EnsureDeviceCapabilities"]) )
      [] self.sub = "EnsureDeviceCapabilities"
            /\ event.ev = "EnsureDeviceCapabilitiesSuccess" -> Complete(Connected)
      [] self.sub = "EnsureDeviceCapabilities" /\ event.ev = "CallError" ->
            ( CASE event.kind = "Auth" ->
                        Process([sub |-> "CheckAuthorizationStatus"])
                [] event.kind = "Other" -> Complete(Disconnected) )
      [] self.sub = "CheckAuthorizationStatus"
            /\ event.ev = "CheckAuthorizationStatusSuccess"
            /\ event.active -> Complete(Connected)
      [] self.sub = "CheckAuthorizationStatus"
            /\ event.ev = "CheckAuthorizationStatusSuccess"
            /\ ~event.active -> Complete(AuthIssues)
      [] self.sub = "CheckAuthorizationStatus" /\ event.ev = "CallError" ->
            Complete(AuthIssues)
      [] OTHER -> invalid_transition

\* Mutant of UninitializedState::transition: a failed authorization check
\* completes with Disconnected, as in the Connected sub-machine.
UninitializedState_transition_check_error(self, event) ==
    CASE self.sub = "GetAuthState" /\ event.ev = "GetAuthStateSuccess" ->
            ( CASE event.auth_state = "Disconnected" -> Complete(Disconnected)
                [] event.auth_state = "AuthIssues" -> Complete(Connected)
                [] event.auth_state = "Connected" ->
                        Process([sub |-> "EnsureDeviceCapabilities"]) )
      [] self.sub = "EnsureDeviceCapabilities"
            /\ event.ev = "EnsureDeviceCapabilitiesSuccess" -> Complete(Connected)
      [] self.sub = "EnsureDeviceCapabilities" /\ event.ev = "CallError" ->
            ( CASE event.kind = "Auth" ->
                        Process([sub |-> "CheckAuthorizationStatus"])
                [] event.kind = "Other" -> Complete(Disconnected) )
      [] self.sub = "CheckAuthorizationStatus"
            /\ event.ev = "CheckAuthorizationStatusSuccess"
            /\ event.active -> Complete(Connected)
      [] self.sub = "CheckAuthorizationStatus"
            /\ event.ev = "CheckAuthorizationStatusSuccess"
            /\ ~event.active -> Complete(AuthIssues)
      [] self.sub = "CheckAuthorizationStatus" /\ event.ev = "CallError" ->
            Complete(Disconnected)
      [] OTHER -> invalid_transition

\* Mutant of UninitializedState::transition: ensure_capabilities is re-run
\* when the authorization is still active.
UninitializedState_transition_reruns_ensure(self, event) ==
    CASE self.sub = "GetAuthState" /\ event.ev = "GetAuthStateSuccess" ->
            ( CASE event.auth_state = "Disconnected" -> Complete(Disconnected)
                [] event.auth_state = "AuthIssues" -> Complete(Connected)
                [] event.auth_state = "Connected" ->
                        Process([sub |-> "EnsureDeviceCapabilities"]) )
      [] self.sub = "EnsureDeviceCapabilities"
            /\ event.ev = "EnsureDeviceCapabilitiesSuccess" -> Complete(Connected)
      [] self.sub = "EnsureDeviceCapabilities" /\ event.ev = "CallError" ->
            ( CASE event.kind = "Auth" ->
                        Process([sub |-> "CheckAuthorizationStatus"])
                [] event.kind = "Other" -> Complete(Disconnected) )
      [] self.sub = "CheckAuthorizationStatus"
            /\ event.ev = "CheckAuthorizationStatusSuccess"
            /\ event.active -> Process([sub |-> "EnsureDeviceCapabilities"])
      [] self.sub = "CheckAuthorizationStatus"
            /\ event.ev = "CheckAuthorizationStatusSuccess"
            /\ ~event.active -> Complete(AuthIssues)
      [] self.sub = "CheckAuthorizationStatus" /\ event.ev = "CallError" ->
            Complete(AuthIssues)
      [] OTHER -> invalid_transition

\* Mutant of UninitializedState::transition: a failure of
\* ensure_capabilities that is not an authentication error cancels.
UninitializedState_transition_cancels(self, event) ==
    CASE self.sub = "GetAuthState" /\ event.ev = "GetAuthStateSuccess" ->
            ( CASE event.auth_state = "Disconnected" -> Complete(Disconnected)
                [] event.auth_state = "AuthIssues" -> Complete(Connected)
                [] event.auth_state = "Connected" ->
                        Process([sub |-> "EnsureDeviceCapabilities"]) )
      [] self.sub = "EnsureDeviceCapabilities"
            /\ event.ev = "EnsureDeviceCapabilitiesSuccess" -> Complete(Connected)
      [] self.sub = "EnsureDeviceCapabilities" /\ event.ev = "CallError" ->
            ( CASE event.kind = "Auth" ->
                        Process([sub |-> "CheckAuthorizationStatus"])
                [] event.kind = "Other" -> Cancel )
      [] self.sub = "CheckAuthorizationStatus"
            /\ event.ev = "CheckAuthorizationStatusSuccess"
            /\ event.active -> Complete(Connected)
      [] self.sub = "CheckAuthorizationStatus"
            /\ event.ev = "CheckAuthorizationStatusSuccess"
            /\ ~event.active -> Complete(AuthIssues)
      [] self.sub = "CheckAuthorizationStatus" /\ event.ev = "CallError" ->
            Complete(AuthIssues)
      [] OTHER -> invalid_transition

UninitializedState_transition(self, event) ==
    CASE self.sub = "GetAuthState" /\ event.ev = "GetAuthStateSuccess" ->
            ( CASE event.auth_state = "Disconnected" -> Complete(Disconnected)
                [] event.auth_state = "AuthIssues" -> Complete(Connected)
                [] event.auth_state = "Connected" ->
                        Process([sub |-> "EnsureDeviceCapabilities"]) )
      [] self.sub = "EnsureDeviceCapabilities"
            /\ event.ev = "EnsureDeviceCapabilitiesSuccess" -> Complete(Connected)
      [] self.sub = "EnsureDeviceCapabilities" /\ event.ev = "CallError" ->
            ( CASE event.kind = "Auth" ->
                        Process([sub |-> "CheckAuthorizationStatus"])
                [] event.kind = "Other" -> Complete(Disconnected) )
      [] self.sub = "CheckAuthorizationStatus"
            /\ event.ev = "CheckAuthorizationStatusSuccess"
            /\ event.active -> Complete(Connected)
      [] self.sub = "CheckAuthorizationStatus"
            /\ event.ev = "CheckAuthorizationStatusSuccess"
            /\ ~event.active -> Complete(AuthIssues)
      [] self.sub = "CheckAuthorizationStatus" /\ event.ev = "CallError" ->
            Complete(AuthIssues)
      [] OTHER -> invalid_transition

(***************************************************************************)
(* logic.rs:128  impl InternalStateLogic for DisconnectedState             *)
(***************************************************************************)
DisconnectedState_start_transition(public_state, event) ==
    CASE event.type = "BeginOAuthFlow" ->
            Process([sub |-> "BeginOAuthFlow", scopes |-> event.scopes,
                     entrypoint |-> event.entrypoint])
      [] event.type = "BeginPairingFlow" ->
            Process([sub |-> "BeginPairingFlow",
                     pairing_url |-> event.pairing_url,
                     scopes |-> event.scopes,
                     entrypoint |-> event.entrypoint])
      [] OTHER -> invalid_transition

\* Mutant of DisconnectedState::transition: the success events of the two
\* flows are swapped.
DisconnectedState_transition_swapped(self, event) ==
    CASE self.sub = "BeginOAuthFlow" /\ event.ev = "BeginPairingFlowSuccess" ->
            Complete(Authenticating(event.oauth_url))
      [] self.sub = "BeginPairingFlow" /\ event.ev = "BeginOAuthFlowSuccess" ->
            Complete(Authenticating(event.oauth_url))
      [] self.sub = "BeginOAuthFlow" /\ event.ev = "CallError" -> Cancel
      [] self.sub = "BeginPairingFlow" /\ event.ev = "CallError" -> Cancel
      [] OTHER -> invalid_transition

DisconnectedState_transition(self, event) ==
    CASE self.sub = "BeginOAuthFlow" /\ event.ev = "BeginOAuthFlowSuccess" ->
            Complete(Authenticating(event.oauth_url))
      [] self.sub = "BeginPairingFlow" /\ event.ev = "BeginPairingFlowSuccess" ->
            Complete(Authenticating(event.oauth_url))
      [] self.sub = "BeginOAuthFlow" /\ event.ev = "CallError" -> Cancel
      [] self.sub = "BeginPairingFlow" /\ event.ev = "CallError" -> Cancel
      [] OTHER -> invalid_transition

(***************************************************************************)
(* logic.rs:166  impl InternalStateLogic for AuthenticatingState           *)
(***************************************************************************)
\* Mutant of AuthenticatingState::start_transition: CancelOAuthFlow is not
\* handled.
AuthenticatingState_start_transition_no_cancel(public_state, event) ==
    CASE event.type = "CompleteOAuthFlow" ->
            Process([sub |-> "CompleteOAuthFlow", code |-> event.code,
                     state |-> event.state])
      [] OTHER -> invalid_transition

\* Mutant of AuthenticatingState::start_transition: cancelling the flow
\* completes with Uninitialized.
AuthenticatingState_start_transition_uninitializes(public_state, event) ==
    CASE event.type = "CompleteOAuthFlow" ->
            Process([sub |-> "CompleteOAuthFlow", code |-> event.code,
                     state |-> event.state])
      [] event.type = "CancelOAuthFlow" -> Complete(Uninitialized)
      [] OTHER -> invalid_transition

AuthenticatingState_start_transition(public_state, event) ==
    CASE event.type = "CompleteOAuthFlow" ->
            Process([sub |-> "CompleteOAuthFlow", code |-> event.code,
                     state |-> event.state])
      [] event.type = "CancelOAuthFlow" -> Complete(Disconnected)
      [] OTHER -> invalid_transition

\* Mutant of AuthenticatingState::transition: the device is not initialized.
AuthenticatingState_transition_no_device(self, event) ==
    CASE self.sub = "CompleteOAuthFlow" /\ event.ev = "CompleteOAuthFlowSuccess" ->
            Complete(Connected)
      [] self.sub = "CompleteOAuthFlow" /\ event.ev = "CallError" -> Cancel
      [] self.sub = "InitializeDevice" /\ event.ev = "InitializeDeviceSuccess" ->
            Complete(Connected)
      [] self.sub = "InitializeDevice" /\ event.ev = "CallError" -> Cancel
      [] OTHER -> invalid_transition

\* Mutant of AuthenticatingState::transition: a failed operation completes
\* with Disconnected.
AuthenticatingState_transition_error_disconnects(self, event) ==
    CASE self.sub = "CompleteOAuthFlow" /\ event.ev = "CompleteOAuthFlowSuccess" ->
            Process([sub |-> "InitializeDevice"])
      [] self.sub = "CompleteOAuthFlow" /\ event.ev = "CallError" ->
            Complete(Disconnected)
      [] self.sub = "InitializeDevice" /\ event.ev = "InitializeDeviceSuccess" ->
            Complete(Connected)
      [] self.sub = "InitializeDevice" /\ event.ev = "CallError" ->
            Complete(Disconnected)
      [] OTHER -> invalid_transition

AuthenticatingState_transition(self, event) ==
    CASE self.sub = "CompleteOAuthFlow" /\ event.ev = "CompleteOAuthFlowSuccess" ->
            Process([sub |-> "InitializeDevice"])
      [] self.sub = "CompleteOAuthFlow" /\ event.ev = "CallError" -> Cancel
      [] self.sub = "InitializeDevice" /\ event.ev = "InitializeDeviceSuccess" ->
            Complete(Connected)
      [] self.sub = "InitializeDevice" /\ event.ev = "CallError" -> Cancel
      [] OTHER -> invalid_transition

(***************************************************************************)
(* logic.rs:194  impl InternalStateLogic for ConnectedState                *)
(***************************************************************************)
ConnectedState_start_transition(public_state, event) ==
    CASE event.type = "Disconnect" -> Process([sub |-> "Disconnect"])
      [] event.type = "CheckAuthorizationStatus" ->
            Process([sub |-> "CheckAuthorizationStatus"])
      [] OTHER -> invalid_transition

\* Mutant of ConnectedState::transition: a failed disconnect cancels.
ConnectedState_transition_disconnect_blocked(self, event) ==
    CASE self.sub = "Disconnect" /\ event.ev = "DisconnectSuccess" ->
            Complete(Disconnected)
      [] self.sub = "Disconnect" /\ event.ev = "CallError" -> Cancel
      [] self.sub = "CheckAuthorizationStatus"
            /\ event.ev = "CheckAuthorizationStatusSuccess" ->
            IF event.active THEN Complete(Connected) ELSE Complete(Disconnected)
      [] self.sub = "CheckAuthorizationStatus" /\ event.ev = "CallError" ->
            Complete(Disconnected)
      [] OTHER -> invalid_transition

\* Mutant of ConnectedState::transition: a failed authorization check
\* completes with AuthIssues when the error is an authentication error.
ConnectedState_transition_kind_matters(self, event) ==
    CASE self.sub = "Disconnect" /\ event.ev = "DisconnectSuccess" ->
            Complete(Disconnected)
      [] self.sub = "Disconnect" /\ event.ev = "CallError" ->
            Complete(Disconnected)
      [] self.sub = "CheckAuthorizationStatus"
            /\ event.ev = "CheckAuthorizationStatusSuccess" ->
            IF event.active THEN Complete(Connected) ELSE Complete(Disconnected)
      [] self.sub = "CheckAuthorizationStatus" /\ event.ev = "CallError" ->
            IF event.kind = "Auth"
            THEN Complete(AuthIssues)
            ELSE Complete(Disconnected)
      [] OTHER -> invalid_transition

\* Mutant of ConnectedState::transition: an authorization that is not active
\* completes with AuthIssues.
ConnectedState_transition_auth_issues(self, event) ==
    CASE self.sub = "Disconnect" /\ event.ev = "DisconnectSuccess" ->
            Complete(Disconnected)
      [] self.sub = "Disconnect" /\ event.ev = "CallError" ->
            Complete(Disconnected)
      [] self.sub = "CheckAuthorizationStatus"
            /\ event.ev = "CheckAuthorizationStatusSuccess" ->
            IF event.active THEN Complete(Connected) ELSE Complete(AuthIssues)
      [] self.sub = "CheckAuthorizationStatus" /\ event.ev = "CallError" ->
            Complete(Disconnected)
      [] OTHER -> invalid_transition

ConnectedState_transition(self, event) ==
    CASE self.sub = "Disconnect" /\ event.ev = "DisconnectSuccess" ->
            Complete(Disconnected)
      [] self.sub = "Disconnect" /\ event.ev = "CallError" ->
            Complete(Disconnected)
      [] self.sub = "CheckAuthorizationStatus"
            /\ event.ev = "CheckAuthorizationStatusSuccess" ->
            IF event.active THEN Complete(Connected) ELSE Complete(Disconnected)
      [] self.sub = "CheckAuthorizationStatus" /\ event.ev = "CallError" ->
            Complete(Disconnected)
      [] OTHER -> invalid_transition

(***************************************************************************)
(* logic.rs:228  impl InternalStateLogic for AuthIssuesState               *)
(***************************************************************************)
AuthIssuesState_start_transition(public_state, event) ==
    CASE event.type = "BeginOAuthFlow" ->
            Process([sub |-> "BeginOAuthFlow", scopes |-> event.scopes,
                     entrypoint |-> event.entrypoint])
      [] OTHER -> invalid_transition

\* Mutant of AuthIssuesState::transition: a failed flow disconnects.
AuthIssuesState_transition_error_disconnects(self, event) ==
    CASE self.sub = "BeginOAuthFlow" /\ event.ev = "BeginOAuthFlowSuccess" ->
            Complete(Authenticating(event.oauth_url))
      [] self.sub = "BeginOAuthFlow" /\ event.ev = "CallError" ->
            Complete(Disconnected)
      [] OTHER -> invalid_transition

AuthIssuesState_transition(self, event) ==
    CASE self.sub = "BeginOAuthFlow" /\ event.ev = "BeginOAuthFlowSuccess" ->
            Complete(Authenticating(event.oauth_url))
      [] self.sub = "BeginOAuthFlow" /\ event.ev = "CallError" -> Cancel
      [] OTHER -> invalid_transition

(***************************************************************************)
(* logic.rs:58  impl InternalStateLogic for InternalState: dispatch on the *)
(* public state, resp. on the variant of the internal state                *)
(***************************************************************************)
start_transition(public_state, event) ==
    CASE public_state.tag = "Uninitialized" ->
            convert(UninitializedState_start_transition(public_state, event),
                    "Uninitialized")
      [] public_state.tag = "Disconnected" ->
            convert(DisconnectedState_start_transition(public_state, event),
                    "Disconnected")
      [] public_state.tag = "Authenticating" ->
            convert(AuthenticatingState_start_transition(public_state, event),
                    "Authenticating")
      [] public_state.tag = "Connected" ->
            convert(ConnectedState_start_transition(public_state, event),
                    "Connected")
      [] public_state.tag = "AuthIssues" ->
            convert(AuthIssuesState_start_transition(public_state, event),
                    "AuthIssues")

transition(self, event) ==
    CASE self.pub = "Uninitialized" ->
            convert(UninitializedState_transition(self, event), "Uninitialized")
      [] self.pub = "Disconnected" ->
            convert(DisconnectedState_transition(self, event), "Disconnected")
      [] self.pub = "Authenticating" ->
            convert(AuthenticatingState_transition(self, event), "Authenticating")
      [] self.pub = "Connected" ->
            convert(ConnectedState_transition(self, event), "Connected")
      [] self.pub = "AuthIssues" ->
            convert(AuthIssuesState_transition(self, event), "AuthIssues")

(***************************************************************************)
(* The account collaborator (internal::FirefoxAccount).  Its methods are   *)
(* modelled by what they may return: Ok(value) or Err(e).  An internal     *)
(* error e is represented by its error handling, the record whose `err`    *)
(* field is the public FxaError it converts to.                            *)
(***************************************************************************)
Ok(val) == [ok |-> TRUE, val |-> val]
Err(e) == [ok |-> FALSE, err |-> e]

AccountErrors == {[err |-> x] : x \in FxaErrors}

\* the value ()
Unit == [unit |-> TRUE]

\* The values the account method called for `internal_state` may return
\* (mod.rs:125-169).  get_auth_state() and disconnect() return no Result:
\* they cannot fail, and their value is written Ok(value) here.  A value
\* is a record that names what it is.
AccountCall(internal_state) ==
    CASE internal_state.sub = "GetAuthState" ->
            {Ok([auth_state |-> a]) : a \in FxaRustAuthState}
      [] internal_state.sub = "Disconnect" -> {Ok(Unit)}
      [] internal_state.sub \in {"BeginOAuthFlow", "BeginPairingFlow"} ->
            {Ok([oauth_url |-> u]) : u \in OAuthUrls}
                \cup {Err(e) : e \in AccountErrors}
      [] internal_state.sub = "CheckAuthorizationStatus" ->
            {Ok([active |-> b]) : b \in BOOLEAN}
                \cup {Err(e) : e \in AccountErrors}
      [] OTHER -> {Ok(Unit)} \cup {Err(e) : e \in AccountErrors}

\* mod.rs:125-169  the account method that process_internal_state calls for
\* `internal_state`
AccountMethod(internal_state) ==
    CASE internal_state.sub = "GetAuthState" -> "get_auth_state"
      [] internal_state.sub = "EnsureDeviceCapabilities" -> "ensure_capabilities"
      [] internal_state.sub = "BeginOAuthFlow" -> "begin_oauth_flow"
      [] internal_state.sub = "BeginPairingFlow" -> "begin_pairing_flow"
      [] internal_state.sub = "CompleteOAuthFlow" -> "complete_oauth_flow"
      [] internal_state.sub = "InitializeDevice" -> "initialize_device"
      [] internal_state.sub = "CheckAuthorizationStatus" ->
            "check_authorization_status"
      [] internal_state.sub = "Disconnect" -> "disconnect"

\* handling.rs:86  the public error of an internal error (the logging and
\* reporting it also does are not state of the machine)
convert_log_report_error(e) == e.err

(***************************************************************************)
(* mod.rs:116  process_internal_state: the InternalEvent for the result r  *)
(* of the account call that corresponds to `internal_state`; `?` returns   *)
(* the call's error.                                                       *)
(***************************************************************************)
process_internal_state(internal_state, r) ==
    CASE internal_state.pub = "Uninitialized"
            /\ internal_state.sub = "GetAuthState" ->
            Ok(GetAuthStateSuccess(r.val.auth_state))
      [] internal_state.pub = "Uninitialized"
            /\ internal_state.sub = "EnsureDeviceCapabilities" ->
            IF r.ok THEN Ok(EnsureDeviceCapabilitiesSuccess) ELSE r
      [] internal_state.pub \in {"Disconnected", "AuthIssues"}
            /\ internal_state.sub = "BeginOAuthFlow" ->
            IF r.ok THEN Ok(BeginOAuthFlowSuccess(r.val.oauth_url)) ELSE r
      [] internal_state.pub = "Disconnected"
            /\ internal_state.sub = "BeginPairingFlow" ->
            IF r.ok THEN Ok(BeginOAuthFlowSuccess(r.val.oauth_url)) ELSE r
      [] internal_state.pub = "Authenticating"
            /\ internal_state.sub = "CompleteOAuthFlow" ->
            IF r.ok THEN Ok(CompleteOAuthFlowSuccess) ELSE r
      [] internal_state.pub = "Authenticating"
            /\ internal_state.sub = "InitializeDevice" ->
            IF r.ok THEN Ok(InitializeDeviceSuccess) ELSE r
      [] internal_state.pub \in {"Connected", "Uninitialized"}
            /\ internal_state.sub = "CheckAuthorizationStatus" ->
            IF r.ok THEN Ok(CheckAuthorizationStatusSuccess(r.val.active)) ELSE r
      [] internal_state.pub = "Connected"
            /\ internal_state.sub = "Disconnect" ->
            Ok(DisconnectSuccess)

(***************************************************************************)
(* mod.rs:58  FxaStateMachine::process_event, in the pieces of its loop    *)
(***************************************************************************)
InvalidStateTransition == [ok |-> FALSE, err |-> "InvalidStateTransition"]
StateMachineLogicError == [ok |-> FALSE, err |-> "StateMachineLogicError"]

\* Mutant of OnComplete: the new public state is returned but not stored.
OnCompleteNotStored(current_state, public_state) ==
    [kind |-> "return", state |-> current_state, result |-> Ok(public_state)]

\* What an iteration of the loop does before it calls the account.
\* mod.rs:68-72  Complete: store the public state and return it
OnComplete(current_state, public_state) ==
    [kind |-> "return", state |-> public_state, result |-> Ok(public_state)]

\* Mutants of OnCancel: the test of `count` is missing, one way or the other.
OnCancelNeverError(current_state, count) ==
    [kind |-> "return", state |-> current_state, result |-> Ok(current_state)]

OnCancelAlwaysError(current_state, count) ==
    [kind |-> "return", state |-> current_state,
     result |-> InvalidStateTransition]

\* Mutant of OnCancel: the Cancel arm does not return.
OnCancelSpins(current_state, count) == [kind |-> "spin"]

\* mod.rs:73-84  Cancel: an error for the first transition, else the
\* stored state
OnCancel(current_state, count) ==
    [kind |-> "return", state |-> current_state,
     result |-> IF count = 0 THEN InvalidStateTransition ELSE Ok(current_state)]

\* Mutant of OnProcess: `count += 1` is missing.
OnProcessNotCounted(current_state, internal_state, count) ==
    [kind |-> "call", internal_state |-> internal_state, count |-> count]

\* Mutant of OnProcess: the guard is `count >= MAX_INTERNAL_TRANSITIONS`.
OnProcessOffByOne(current_state, internal_state, count) ==
    IF count + 1 >= MAX_INTERNAL_TRANSITIONS
    THEN [kind |-> "return", state |-> current_state,
          result |-> StateMachineLogicError]
    ELSE [kind |-> "call", internal_state |-> internal_state,
          count |-> count + 1]

\* mod.rs:86-92  Process: count the transition and give up past the maximum
OnProcess(current_state, internal_state, count) ==
    IF count + 1 > MAX_INTERNAL_TRANSITIONS
    THEN [kind |-> "return", state |-> current_state,
          result |-> StateMachineLogicError]
    ELSE [kind |-> "call", internal_state |-> internal_state,
          count |-> count + 1]

\* mod.rs:66-92
LoopHead(current_state, tr, count) ==
    CASE tr.t = "Process" -> OnProcess(current_state, tr.s, count)
      [] tr.t = "Complete" -> OnComplete(current_state, tr.p)
      [] tr.t = "Cancel" -> OnCancel(current_state, count)

\* Mutant of InternalEventOf: the two kinds of error are swapped.
InternalEventOfSwapped(res) ==
    IF res.ok THEN res.val
    ELSE IF convert_log_report_error(res.err) = "Authentication"
         THEN CallError("Other")
         ELSE CallError("Auth")

\* mod.rs:93-105  the internal event for the result of process_internal_state
InternalEventOf(res) ==
    IF res.ok THEN res.val
    ELSE IF convert_log_report_error(res.err) = "Authentication"
         THEN CallError("Auth")
         ELSE CallError("Other")

\* mod.rs:93-106  the rest of the iteration, once the account call returned r
LoopTail(internal_state, r) ==
    transition(internal_state,
               InternalEventOf(process_internal_state(internal_state, r)))

\* process_event run alone on a machine whose stored state is current_state,
\* the account calls returning the values of `rs` in turn: the result and the
\* state stored when it returns (rs holds a value for every call made).
RECURSIVE RunLoop(_, _, _, _)
RunLoop(current_state, tr, count, rs) ==
    \* h is bound by a set constructor: its value is computed once
    CHOOSE out \in
        {IF h.kind = "return" \/ rs = <<>>
         THEN h
         ELSE RunLoop(current_state, LoopTail(h.internal_state, Head(rs)),
                      h.count, Tail(rs)) :
            h \in {LoopHead(current_state, tr, count)}} : TRUE

process_event_alone(current_state, event, rs) ==
    RunLoop(current_state, start_transition(current_state, event), 0, rs)

\* Mutant of GuardScope: the guards are temporaries, dropped at the end of
\* the statement that took them.
GuardDroppedEarly(holder, returned) == NoThread

\* Mutant of GuardScope: the guards are leaked, the locks never released.
GuardLeaked(holder, returned) == holder

\* mod.rs:60-61  the guards `account` and `current_state` live until the
\* function returns: the holder of a lock after a step of the holder
GuardScope(holder, returned) == IF returned THEN NoThread ELSE holder

\* Mutants of the two locks: lock() returns although the mutex is held.
AccountLockIgnored(holder) == TRUE

StateLockIgnored(holder) == TRUE

\* parking_lot::Mutex::lock returns once the mutex is free
\* mod.rs:60  self.account.internal.lock()
AccountLockFree(holder) == holder = NoThread
\* mod.rs:50, mod.rs:61  self.state.lock()
StateLockFree(holder) == holder = NoThread

(***************************************************************************)
(* State                                                                   *)
(***************************************************************************)
VARIABLES
    state,          \* FxaStateMachine.state: the stored public state
    stateLock,      \* the thread that holds the Mutex of `state`
    accountLock,    \* the thread that holds account.internal's Mutex
    pc,             \* where each thread is in state() / process_event
    event,          \* process_event's argument
    trans,          \* process_event's local `transition`
    count,          \* process_event's local `count`
    internal_state, \* process_event's local `internal_state`
    returning,      \* the value a call is about to return, once it is made
    pre,            \* history: the stored state start_transition was given
    results,        \* history: what the call's account calls returned
    calls,          \* history: the account methods the call has invoked
    lastReturn,     \* history: the call that has returned in the last step
    serial,         \* history: the stored state of the calls run one by one
    lifetime,       \* history: what has happened since the machine was made
    tester,         \* the StateMachineTester of logic.rs's unit tests
    injected        \* a process_event call driven by an injected table

\* the machine and the threads that call it
machine ==
    <<state, stateLock, accountLock, pc, event, trans, count, internal_state,
      returning, pre, results, calls, lastReturn, serial, lifetime>>

\* the test harnesses, which the machine's operations do not touch
harness == <<tester, injected>>

vars == <<machine, tester, injected>>

NoEvent == [type |-> "none"]
NoTransition == [t |-> "none"]
NoInternalState == [pub |-> "none", sub |-> "none"]
NoCall == [kind |-> "none"]
NoReturn == [kind |-> "none"]
NoTester == [made |-> FALSE]
NoInjected == [made |-> FALSE]

\* What is counted over the lifetime of a machine is counted up to MaxCounted
Counted(n) == IF n < MaxCounted THEN n + 1 ELSE n

\* mod.rs:40  nothing has happened to a machine that was just made: no
\* Initialize has succeeded, get_auth_state was not invoked
NewLifetime == [initialized |-> 0, get_auth_state |-> 0]

\* Where a thread is when, from inside the account operation that its
\* process_event call has invoked, it has called the machine again
ReentrantPositions ==
    {"reentrant_state", "reentrant_state_return", "reentrant_lock_account",
     "reentrant_lock_state"}

\* Threads inside process_event with both locks taken
InFlight ==
    {t \in Threads : pc[t] \in {"loop", "call"} \cup ReentrantPositions}

\* Threads whose process_event call is returning: the state is unlocked, the
\* account is not yet
Returning == {t \in Threads : pc[t] = "drop_account"}

\* Threads whose process_event call has dropped both guards and has not yet
\* returned to its caller
Unlocked == {t \in Threads : pc[t] = "return"}

\* History: another process_event call starts its work; of a call that has
\* its value and has not yet returned it, the value is kept, and what led to
\* it is forgotten
Shortened(record) ==
    IF record.kind = "process_event"
    THEN [kind |-> "process_event", thread |-> record.thread,
          full |-> FALSE, result |-> record.result, stale |-> record.stale]
    ELSE record

\* History: the stored state is changed to public_state; a value that was
\* made from the stored state before and has not yet reached its caller is
\* marked: it is not the state that is stored now
Overtaken(record, public_state) ==
    IF record.kind # "none" /\ public_state # state
    THEN [record EXCEPT !.stale = TRUE]
    ELSE record

\* mod.rs:40  FxaStateMachine::new
Init ==
    /\ state = Uninitialized
    /\ stateLock = NoThread
    /\ accountLock = NoThread
    /\ pc = [t \in Threads |-> "idle"]
    /\ event = [t \in Threads |-> NoEvent]
    /\ trans = [t \in Threads |-> NoTransition]
    /\ count = [t \in Threads |-> 0]
    /\ internal_state = [t \in Threads |-> NoInternalState]
    /\ returning = [t \in Threads |-> NoReturn]
    /\ pre = [t \in Threads |-> Uninitialized]
    /\ results = [t \in Threads |-> <<>>]
    /\ calls = [t \in Threads |-> <<>>]
    /\ lastReturn = NoCall
    /\ serial = Uninitialized
    /\ lifetime = NewLifetime
    /\ tester = NoTester
    /\ injected = NoInjected

(***************************************************************************)
(* state()                                                                 *)
(***************************************************************************)
\* a thread calls state()
StateCall(t) ==
    /\ pc[t] = "idle"
    /\ pc' = [pc EXCEPT ![t] = "state"]
    /\ lastReturn' = NoCall
    /\ UNCHANGED <<harness, lifetime, returning, calls, state, stateLock, accountLock, event, trans, count,
                   internal_state, pre, results, serial>>

\* Mutant of state(): the stored state is taken, not copied, and
\* Uninitialized is left in its place.
StateReadTakes(t) ==
    /\ pc[t] \in {"state", "reentrant_state"}
    /\ StateLockFree(stateLock)
    /\ pc' = [pc EXCEPT ![t] = IF pc[t] = "state"
                               THEN "state_return"
                               ELSE "reentrant_state_return"]
    /\ returning' = [returning EXCEPT ![t] =
            [kind |-> "state", result |-> state, inFlight |-> InFlight,
             stale |-> FALSE]]
    /\ state' = Uninitialized
    /\ lastReturn' = NoCall
    /\ UNCHANGED <<harness, lifetime, calls, stateLock, accountLock, event,
                   trans, count, internal_state, pre, results,
                   serial>>

\* mod.rs:50  self.state.lock().clone(): lock, copy, unlock.  The guard is a
\* temporary of the expression: when the copy is made the state is unlocked,
\* and the function has not yet returned
StateRead(t) ==
    /\ pc[t] \in {"state", "reentrant_state"}
    /\ StateLockFree(stateLock)
    /\ pc' = [pc EXCEPT ![t] = IF pc[t] = "state"
                               THEN "state_return"
                               ELSE "reentrant_state_return"]
    /\ returning' = [returning EXCEPT ![t] =
            [kind |-> "state", result |-> state, inFlight |-> InFlight,
             stale |-> FALSE]]
    /\ lastReturn' = NoCall
    /\ UNCHANGED <<harness, lifetime, calls, state, stateLock, accountLock,
                   event, trans, count, internal_state, pre, results, serial>>

\* mod.rs:50-51  state() returns the copy to its caller.  The history records
\* the call.
StateReturn(t) ==
    /\ pc[t] \in {"state_return", "reentrant_state_return"}
    /\ pc' = [pc EXCEPT ![t] = IF pc[t] = "state_return" THEN "idle" ELSE "call"]
    /\ returning' = [returning EXCEPT ![t] = NoReturn]
    /\ lastReturn' = [kind |-> "state", thread |-> t,
                      result |-> returning[t].result,
                      inFlight |-> returning[t].inFlight,
                      stale |-> returning[t].stale]
    /\ UNCHANGED <<harness, lifetime, calls, state, stateLock, accountLock,
                   event, trans, count, internal_state, pre, results, serial>>

(***************************************************************************)
(* process_event(e)                                                        *)
(***************************************************************************)
\* a thread calls process_event(e)
ProcessEventCall(t, e) ==
    /\ pc[t] = "idle"
    /\ pc' = [pc EXCEPT ![t] = "lock_account"]
    /\ event' = [event EXCEPT ![t] = e]
    /\ lastReturn' = NoCall
    /\ UNCHANGED <<harness, lifetime, returning, calls, state, stateLock, accountLock, trans, count,
                   internal_state, pre, results, serial>>

\* mod.rs:60  let mut account = self.account.internal.lock();
LockAccount(t) ==
    /\ pc[t] \in {"lock_account", "reentrant_lock_account"}
    /\ AccountLockFree(accountLock)
    /\ accountLock' = t
    /\ pc' = [pc EXCEPT ![t] = IF pc[t] = "lock_account"
                               THEN "lock_state"
                               ELSE "reentrant_lock_state"]
    /\ returning' = [u \in Threads |-> Shortened(returning[u])]
    /\ lastReturn' = NoCall
    /\ UNCHANGED <<harness, lifetime, calls, state, stateLock, event, trans,
                   count, internal_state, pre, results, serial>>

\* mod.rs:61-63  let mut current_state = self.state.lock(); count = 0;
\* transition = InternalState::start_transition(&current_state, &event)
LockState(t) ==
    /\ pc[t] = "lock_state"
    /\ StateLockFree(stateLock)
    /\ stateLock' = t
    /\ count' = [count EXCEPT ![t] = 0]
    /\ trans' = [trans EXCEPT ![t] = start_transition(state, event[t])]
    /\ pre' = [pre EXCEPT ![t] = state]
    /\ results' = [results EXCEPT ![t] = <<>>]
    /\ calls' = [calls EXCEPT ![t] = <<>>]
    /\ pc' = [pc EXCEPT ![t] = "loop"]
    /\ lastReturn' = NoCall
    /\ UNCHANGED <<harness, lifetime, returning, state, accountLock, event, internal_state,
                   serial>>

\* mod.rs:66-92  an iteration that returns: Complete, Cancel, or the loop
\* guard.  The stored state is written (Complete) and the function's locals
\* are dropped in the reverse order of their declarations: first the guard
\* `current_state` (mod.rs:61), which unlocks the state; `account`
\* (mod.rs:60) is still locked.  The call has done its work and has its
\* value: the history makes the record of the call.
LoopReturn(t) ==
    LET h == LoopHead(state, trans[t], count[t])
        ref == process_event_alone(serial, event[t], results[t])
    IN  /\ pc[t] = "loop"
        /\ h.kind = "return"
        /\ state' = h.state
        /\ stateLock' = GuardScope(stateLock, TRUE)
        /\ accountLock' = GuardScope(accountLock, FALSE)
        /\ pc' = [pc EXCEPT ![t] = "drop_account"]
        /\ event' = [event EXCEPT ![t] = NoEvent]
        /\ trans' = [trans EXCEPT ![t] = NoTransition]
        /\ count' = [count EXCEPT ![t] = 0]
        /\ internal_state' = [internal_state EXCEPT ![t] = NoInternalState]
        /\ pre' = [pre EXCEPT ![t] = Uninitialized]
        /\ results' = [results EXCEPT ![t] = <<>>]
        /\ calls' = [calls EXCEPT ![t] = <<>>]
        /\ returning' = [u \in Threads |->
                IF u = t
                THEN [kind |-> "process_event", thread |-> t,
                      full |-> TRUE,
                      event |-> event[t], pre |-> pre[t],
                      calls |-> calls[t],
                      results |-> results[t],
                      result |-> h.result,
                      post |-> h.state,
                      ref |-> ref,
                      stale |-> FALSE]
                ELSE Overtaken(returning[u], h.state)]
        /\ lastReturn' = NoCall
        /\ serial' = ref.state
        /\ lifetime' = [lifetime EXCEPT !.initialized =
                IF event[t].type = "Initialize" /\ h.result.ok
                THEN Counted(@) ELSE @]
        /\ UNCHANGED harness

\* mod.rs:60, 108  last on the way out of the body, the guard `account` is
\* dropped, which unlocks the account.  The call has not yet returned.
DropAccount(t) ==
    /\ pc[t] = "drop_account"
    /\ accountLock' = GuardScope(accountLock, TRUE)
    /\ pc' = [pc EXCEPT ![t] = "return"]
    /\ lastReturn' = NoCall
    /\ UNCHANGED <<harness, state, stateLock, event, trans, count,
                   internal_state, returning, pre, results, calls, serial,
                   lifetime>>

\* mod.rs:57-58  #[handle_error(Error)]: the body has returned its value,
\* with no lock held; an error is converted (handling.rs:86) and
\* process_event returns to its caller.  The history records the return:
\* the record of the call, or its value alone, which is stale when the
\* stored state has changed since the call stored its own.
ProcessEventReturn(t) ==
    /\ pc[t] = "return"
    /\ pc' = [pc EXCEPT ![t] = "idle"]
    /\ returning' = [returning EXCEPT ![t] = NoReturn]
    /\ lastReturn' = returning[t]
    /\ UNCHANGED <<harness, state, stateLock, accountLock, event, trans,
                   count, internal_state, pre, results, calls, serial,
                   lifetime>>

\* mod.rs:66-93  an iteration that goes on: the account method for the
\* internal state is called
LoopCall(t) ==
    LET h == LoopHead(state, trans[t], count[t])
    IN  /\ pc[t] = "loop"
        /\ h.kind = "call"
        /\ count' = [count EXCEPT ![t] = h.count]
        /\ internal_state' = [internal_state EXCEPT ![t] = h.internal_state]
        /\ pc' = [pc EXCEPT ![t] = "call"]
        /\ calls' = [calls EXCEPT ![t] = Append(@, AccountMethod(h.internal_state))]
        /\ stateLock' = GuardScope(stateLock, FALSE)
        /\ accountLock' = GuardScope(accountLock, FALSE)
        /\ lifetime' = [lifetime EXCEPT !.get_auth_state =
                IF AccountMethod(h.internal_state) = "get_auth_state"
                THEN Counted(@) ELSE @]
        /\ lastReturn' = NoCall
        /\ UNCHANGED <<harness, returning, state, event, trans, pre, results, serial>>

\* mod.rs:93-106  the account method returns r; the next transition
CallReturn(t, r) ==
    /\ pc[t] = "call"
    /\ r \in AccountCall(internal_state[t])
    /\ trans' = [trans EXCEPT ![t] = LoopTail(internal_state[t], r)]
    /\ results' = [results EXCEPT ![t] = Append(@, r)]
    /\ pc' = [pc EXCEPT ![t] = "loop"]
    /\ stateLock' = GuardScope(stateLock, FALSE)
    /\ accountLock' = GuardScope(accountLock, FALSE)
    /\ lastReturn' = NoCall
    /\ UNCHANGED <<harness, lifetime, returning, calls, state, event, count, internal_state, pre,
                   serial>>

\* Every value an account method may return
AccountValues ==
    {Ok([auth_state |-> a]) : a \in FxaRustAuthState} \cup {Ok(Unit)}
        \cup {Ok([oauth_url |-> u]) : u \in OAuthUrls}
        \cup {Ok([active |-> b]) : b \in BOOLEAN}
        \cup {Err(e) : e \in AccountErrors}

Next ==
    \E t \in Threads :
        \/ StateCall(t)
        \/ StateRead(t)
        \/ StateReturn(t)
        \/ \E e \in FxaEvent : ProcessEventCall(t, e)
        \/ LockAccount(t)
        \/ LockState(t)
        \/ LoopReturn(t)
        \/ DropAccount(t)
        \/ ProcessEventReturn(t)
        \/ LoopCall(t)
        \/ \E r \in AccountValues : CallReturn(t, r)

Spec == Init /\ [][Next]_vars

(***************************************************************************)
(* The machine under its scheduling.  A thread that runs goes on running:  *)
(* an iteration of the loop is taken, and an account operation that was    *)
(* invoked returns (process_event sets no timeout, it is the account's     *)
(* operations that must return).  parking_lot's Mutex is eventually fair:  *)
(* a thread that waits for a lock that is released again and again gets    *)
(* it.                                                                     *)
(***************************************************************************)
\* The steps of thread t inside a call it has made
Proceed(t) ==
    \/ StateRead(t)
    \/ StateReturn(t)
    \/ LockAccount(t)
    \/ LockState(t)
    \/ LoopReturn(t)
    \/ DropAccount(t)
    \/ ProcessEventReturn(t)
    \/ LoopCall(t)
    \/ \E r \in AccountValues : CallReturn(t, r)

\* One thread calls the machine, with any event
NextSolo ==
    \/ StateCall(1)
    \/ StateRead(1)
    \/ StateReturn(1)
    \/ \E e \in FxaEvent : ProcessEventCall(1, e)
    \/ LockAccount(1)
    \/ LockState(1)
    \/ LoopReturn(1)
    \/ DropAccount(1)
    \/ ProcessEventReturn(1)
    \/ LoopCall(1)
    \/ \E r \in AccountValues : CallReturn(1, r)

SpecSolo == Init /\ [][NextSolo]_vars /\ WF_vars(Proceed(1))

\* The events the threads send when they contend for the machine: one that
\* is valid at start-up and one that is valid once connected, each invalid
\* in the other states
LiveEvents == {Initialize, Disconnect}

NextLive ==
    \E t \in Threads :
        \/ StateCall(t)
        \/ StateRead(t)
        \/ StateReturn(t)
        \/ \E e \in LiveEvents : ProcessEventCall(t, e)
        \/ LockAccount(t)
        \/ LockState(t)
        \/ LoopReturn(t)
        \/ DropAccount(t)
        \/ ProcessEventReturn(t)
        \/ LoopCall(t)
        \/ \E r \in AccountValues : CallReturn(t, r)

SpecLive ==
    Init /\ [][NextLive]_vars /\ \A t \in Threads : SF_vars(Proceed(t))

(***************************************************************************)
(* Reentrant calls: the account operation that process_event has invoked   *)
(* calls state() or process_event of the same machine, on the same thread  *)
(***************************************************************************)
\* mod.rs:49  state() is called from inside the account operation
ReenterState(t) ==
    /\ pc[t] = "call"
    /\ pc' = [pc EXCEPT ![t] = "reentrant_state"]
    /\ lastReturn' = NoCall
    /\ UNCHANGED <<harness, lifetime, returning, calls, state, stateLock, accountLock, event, trans,
                   count, internal_state, pre, results, serial>>

\* mod.rs:58  process_event is called from inside the account operation;
\* its first statement takes the account lock, its second the state lock,
\* before the event is looked at
ReenterProcessEvent(t) ==
    /\ pc[t] = "call"
    /\ pc' = [pc EXCEPT ![t] = "reentrant_lock_account"]
    /\ lastReturn' = NoCall
    /\ UNCHANGED <<harness, lifetime, returning, calls, state, stateLock, accountLock, event, trans,
                   count, internal_state, pre, results, serial>>

NextReentrant ==
    \E t \in Threads :
        \/ StateCall(t)
        \/ StateRead(t)
        \/ StateReturn(t)
        \/ \E e \in FxaEvent : ProcessEventCall(t, e)
        \/ LockAccount(t)
        \/ LockState(t)
        \/ LoopReturn(t)
        \/ DropAccount(t)
        \/ ProcessEventReturn(t)
        \/ LoopCall(t)
        \/ \E r \in AccountValues : CallReturn(t, r)
        \/ ReenterState(t)
        \/ ReenterProcessEvent(t)

SpecReentrant == Init /\ [][NextReentrant]_vars

(***************************************************************************)
(* mod.rs:116  process_internal_state is a public function: it can be      *)
(* called without process_event, by a caller that has locked               *)
(* account.internal, the only way to the account of the machine.  It       *)
(* invokes the account operation of the internal state it is given and     *)
(* answers the internal event; it neither locks nor reads nor writes the   *)
(* stored state, and runs no transition.                                   *)
(***************************************************************************)
\* types.rs:85  the values of InternalState, with the arguments that the
\* events of FxaEvent carry
InternalStates ==
    {[pub |-> "Uninitialized", sub |-> x] :
        x \in {"GetAuthState", "EnsureDeviceCapabilities",
               "CheckAuthorizationStatus"}}
        \cup {[pub |-> "Authenticating", sub |-> "InitializeDevice"]}
        \cup {tr.s : tr \in {x \in {start_transition(p, e) :
                                        p \in FxaState, e \in FxaEvent} :
                                x.t = "Process"}}

\* mod.rs:117  account: &mut internal::FirefoxAccount: the caller of
\* process_internal_state has the account to itself, which it gets as
\* process_event does (mod.rs:60), by locking account.internal.  The guard
\* is the caller's: it keeps it for as long as it likes.
DirectLock(t) ==
    /\ pc[t] = "idle"
    /\ AccountLockFree(accountLock)
    /\ accountLock' = t
    /\ lastReturn' = NoCall
    /\ UNCHANGED <<harness, lifetime, returning, calls, state, stateLock,
                   event, trans, count, internal_state, pre, results, pc, serial>>

\* the caller drops its guard of account.internal
DirectUnlock(t) ==
    /\ pc[t] = "idle"
    /\ accountLock = t
    /\ accountLock' = NoThread
    /\ lastReturn' = NoCall
    /\ UNCHANGED <<harness, lifetime, returning, calls, state, stateLock,
                   event, trans, count, internal_state, pre, results, pc, serial>>

\* mod.rs:116-125  process_internal_state(&mut account, &s), called with the
\* guard the caller holds: the account operation is invoked.  No lock is
\* taken.
DirectCall(t, s) ==
    /\ pc[t] = "idle"
    /\ accountLock = t
    /\ internal_state' = [internal_state EXCEPT ![t] = s]
    /\ pc' = [pc EXCEPT ![t] = "direct_call"]
    /\ lifetime' = [lifetime EXCEPT !.get_auth_state =
            IF AccountMethod(s) = "get_auth_state" THEN Counted(@) ELSE @]
    /\ lastReturn' = NoCall
    /\ UNCHANGED <<harness, returning, calls, state, stateLock, accountLock,
                   event, trans, count, pre, results, serial>>

\* mod.rs:125-170  the account operation returns r: process_internal_state
\* returns the internal event, or the error.  Nothing is unlocked: the
\* caller still holds its guard.
DirectReturn(t, r) ==
    /\ pc[t] = "direct_call"
    /\ r \in AccountCall(internal_state[t])
    /\ lastReturn' = [kind |-> "process_internal_state", thread |-> t,
                      internal_state |-> internal_state[t],
                      method |-> AccountMethod(internal_state[t]),
                      result |-> process_internal_state(internal_state[t], r),
                      post |-> state]
    /\ internal_state' = [internal_state EXCEPT ![t] = NoInternalState]
    /\ pc' = [pc EXCEPT ![t] = "idle"]
    /\ UNCHANGED <<harness, lifetime, returning, calls, state, stateLock,
                   accountLock, event, trans, count, pre, results, serial>>

\* The threads call state(), process_event with the events of LiveEvents,
\* and process_internal_state with any internal state
NextDirect ==
    \E t \in Threads :
        \/ StateCall(t)
        \/ StateRead(t)
        \/ StateReturn(t)
        \/ \E e \in LiveEvents : ProcessEventCall(t, e)
        \/ LockAccount(t)
        \/ LockState(t)
        \/ LoopReturn(t)
        \/ DropAccount(t)
        \/ ProcessEventReturn(t)
        \/ LoopCall(t)
        \/ \E r \in AccountValues : CallReturn(t, r)
        \/ DirectLock(t)
        \/ \E s \in InternalStates : DirectCall(t, s)
        \/ \E r \in AccountValues : DirectReturn(t, r)
        \/ DirectUnlock(t)

SpecDirect == Init /\ [][NextDirect]_vars

(***************************************************************************)
(* logic.rs:267  StateMachineTester, the harness of the unit tests: the    *)
(* transition logic alone, fed with any internal event                     *)
(***************************************************************************)
NoInternalEvent == [ev |-> "none"]

\* types.rs:137  every InternalEvent
InternalEvent ==
    {GetAuthStateSuccess(a) : a \in FxaRustAuthState}
        \cup {BeginOAuthFlowSuccess(u) : u \in OAuthUrls}
        \cup {BeginPairingFlowSuccess(u) : u \in OAuthUrls}
        \cup {CheckAuthorizationStatusSuccess(b) : b \in BOOLEAN}
        \cup {CallError(k) : k \in {"Auth", "Other"}}
        \cup {CompleteOAuthFlowSuccess, InitializeDeviceSuccess,
              EnsureDeviceCapabilitiesSuccess, DisconnectSuccess}

\* logic.rs:273  StateMachineTester::new: panics unless start_transition
\* answers Process
TesterNew(public_state, e) ==
    LET tr == start_transition(public_state, e)
    IN  /\ tr.t = "Process"
        /\ tester' = [made |-> TRUE, public_state |-> public_state,
                      event |-> e, state |-> tr.s, fed |-> NoInternalEvent,
                      got |-> NoTransition]
        /\ UNCHANGED <<machine, injected>>

\* logic.rs:284  StateMachineTester::transition: move to the next internal
\* state; panics unless transition answers Process
TesterTransition(ie) ==
    LET tr == transition(tester.state, ie)
    IN  /\ tester.made
        /\ tr.t = "Process"
        /\ tester' = [tester EXCEPT !.state = tr.s, !.fed = ie, !.got = tr]
        /\ UNCHANGED <<machine, injected>>

\* logic.rs:294  StateMachineTester::get_transition: what transition answers
TesterGetTransition(ie) ==
    /\ tester.made
    /\ tester' = [tester EXCEPT !.fed = ie,
                                !.got = transition(tester.state, ie)]
    /\ UNCHANGED <<machine, injected>>

TesterNext ==
    \/ \E public_state \in FxaState, e \in FxaEvent :
            TesterNew(public_state, e)
    \/ \E ie \in InternalEvent : TesterTransition(ie)
    \/ \E ie \in InternalEvent : TesterGetTransition(ie)

SpecTester == Init /\ [][TesterNext]_vars

(***************************************************************************)
(* process_event driven by an injected transition table: an                *)
(* implementation of InternalStateLogic (logic.rs:19) other than the       *)
(* shipped one, whose internal states form a chain of Process steps.  The  *)
(* loop is the one of mod.rs:65-107.                                       *)
(***************************************************************************)
\* The longest chain of internal states of an injected table
MaxChain == 22

NoResult == [ok |-> FALSE, err |-> "none"]

\* the i-th internal state of an injected table
InjectedState(i) == [pub |-> "Injected", sub |-> i]

\* What the last internal state of an injected table answers: Complete,
\* Cancel, or Process of the first state again (a cycle)
InjectedLast ==
    {Complete(Connected), Complete(Disconnected), Cancel,
     Process(InjectedState(1))}

\* An injected table: n internal states, the i-th answering Process of the
\* next one and the n-th answering `last`; with no internal state,
\* start_transition answers `last` at once.
InjectedTables ==
    {[n |-> n, last |-> l] : n \in 1..MaxChain, l \in InjectedLast}
        \cup {[n |-> 0, last |-> l] :
                    l \in {Complete(Connected), Complete(Disconnected), Cancel}}

\* logic.rs:21  start_transition of the injected table
injected_start_transition(table) ==
    IF table.n = 0 THEN table.last ELSE Process(InjectedState(1))

\* logic.rs:25  transition of the injected table, whatever the internal event
injected_transition(table, self) ==
    IF self.sub < table.n THEN Process(InjectedState(self.sub + 1))
    ELSE table.last

\* mod.rs:40  a machine with the injected table, its stored state being
\* public_state
InjectedNew(public_state, table) ==
    /\ injected' = [made |-> TRUE, table |-> table, state |-> public_state,
                    pre |-> public_state, trans |-> NoTransition, count |-> 0,
                    invoked |-> 0, pc |-> "idle", result |-> NoResult]
    /\ UNCHANGED <<machine, tester>>

\* mod.rs:60-63  process_event is called: count = 0 and the first transition
InjectedProcessEvent ==
    /\ injected.made
    /\ injected.pc # "loop"
    /\ injected' = [injected EXCEPT
                        !.pre = injected.state,
                        !.trans = injected_start_transition(injected.table),
                        !.count = 0, !.invoked = 0, !.pc = "loop",
                        !.result = NoResult]
    /\ UNCHANGED <<machine, tester>>

\* mod.rs:66-106  an iteration that goes on: the account operation of the
\* internal state is invoked, and the table answers the next transition
InjectedLoopCall ==
    LET h == LoopHead(injected.state, injected.trans, injected.count)
    IN  /\ injected.made
        /\ injected.pc = "loop"
        /\ h.kind = "call"
        /\ injected' = [injected EXCEPT
                            !.count = h.count,
                            !.invoked = @ + 1,
                            !.trans = injected_transition(injected.table,
                                                          h.internal_state)]
        /\ UNCHANGED <<machine, tester>>

\* mod.rs:66-92  an iteration that returns: Complete, Cancel or the loop guard
InjectedLoopReturn ==
    LET h == LoopHead(injected.state, injected.trans, injected.count)
    IN  /\ injected.made
        /\ injected.pc = "loop"
        /\ h.kind = "return"
        /\ injected' = [injected EXCEPT
                            !.state = h.state, !.result = h.result,
                            !.trans = NoTransition, !.pc = "done"]
        /\ UNCHANGED <<machine, tester>>

InjectedNext ==
    \/ \E public_state \in FxaState, table \in InjectedTables :
            InjectedNew(public_state, table)
    \/ InjectedProcessEvent
    \/ InjectedLoopCall
    \/ InjectedLoopReturn

SpecInjected == Init /\ [][InjectedNext]_vars

(***************************************************************************)
(* Properties                                                              *)
(***************************************************************************)
\* The table of the events that are valid for each public state (spec.md,
\* section 4.1), by the event's type.
ValidEventTypes(public_state) ==
    CASE public_state.tag = "Uninitialized" -> {"Initialize"}
      [] public_state.tag = "Disconnected" ->
            {"BeginOAuthFlow", "BeginPairingFlow"}
      [] public_state.tag = "Authenticating" ->
            {"CompleteOAuthFlow", "CancelOAuthFlow"}
      [] public_state.tag = "Connected" ->
            {"Disconnect", "CheckAuthorizationStatus"}
      [] public_state.tag = "AuthIssues" -> {"BeginOAuthFlow"}

\* A process_event call has just returned, before another call has started
\* its work: `lastReturn` is its record, in full
Returned ==
    /\ lastReturn.kind = "process_event"
    /\ lastReturn.full

\* C1: an event that is not valid for the stored state S makes process_event
\* return InvalidStateTransition, and the stored state is S when it returns.
C1_InvalidEventRejected ==
    (Returned /\ lastReturn.event.type \notin ValidEventTypes(lastReturn.pre))
        => /\ lastReturn.result = InvalidStateTransition
           /\ lastReturn.post = lastReturn.pre
           /\ state = lastReturn.pre

C1_Witness ==
    /\ Returned
    /\ lastReturn.pre = AuthIssues
    /\ lastReturn.event.type = "BeginPairingFlow"
    /\ lastReturn.result = InvalidStateTransition

\* C2, as claimed: from the moment a process_event call holds the account
\* lock and the state lock until the moment it returns, no other
\* process_event call holds a lock or is inside an account operation.
C2_AloneUntilItReturns ==
    \A t \in InFlight \cup Returning \cup Unlocked :
        \A u \in Threads \ {t} :
            pc[u] \notin {"lock_state", "loop", "call", "drop_account"}

\* C2, amended: from the moment a process_event call holds the account lock
\* and the state lock until it has dropped both guards, which it does on its
\* way out, before it returns, it holds the account lock, and the state
\* lock until it drops that guard, and no other process_event call holds a
\* lock or is inside an account operation; nor is a caller of
\* process_internal_state inside one, which needs the account lock.
C2_OneCallInFlight ==
    /\ \A t \in InFlight \cup Returning :
            /\ accountLock = t
            /\ t \in InFlight => stateLock = t
            /\ t \in Returning => stateLock # t
            /\ \A u \in Threads \ {t} :
                    pc[u] \notin {"lock_state", "loop", "call", "drop_account",
                                  "direct_call"}
    /\ \A t \in Threads :
            pc[t] = "direct_call" =>
                /\ accountLock = t
                /\ stateLock # t
                /\ InFlight \cup Returning = {}

C2_Witness ==
    \E t, u \in Threads :
        /\ pc[t] = "call"
        /\ pc[u] = "lock_account"
        /\ event[u] # event[t]

\* C3: concurrent calls serialize.  Never are two calls in flight (so the
\* account operations of two calls are not interleaved), and every call
\* returns the value, and leaves the stored state, that it would when the
\* calls are run one at a time in the order in which they store their state.
C3_Serialized ==
    /\ Cardinality(InFlight \cup Returning) <= 1
    /\ state = serial
    /\ Returned =>
        /\ lastReturn.result = lastReturn.ref.result
        /\ lastReturn.post = lastReturn.ref.state

C3_Witness ==
    \E u \in Threads :
        /\ Returned
        /\ lastReturn.thread # u
        /\ lastReturn.post # lastReturn.pre
        /\ lastReturn.results # <<>>
        /\ pc[u] = "return"
        /\ returning[u].result = Ok(lastReturn.pre)

\* C4, as claimed: a state() call issued while a process_event call is in
\* the middle of an account operation can return at once.
C4_StateNeverBlocks ==
    \A t \in Threads :
        (pc[t] = "state" /\ \E u \in Threads : pc[u] = "call")
            => ENABLED StateRead(t)

\* C4, amended: state() returns a copy of the stored state and calls no
\* account operation, but it takes the state lock, which a process_event
\* call holds until it drops that guard on its way out: a state() call
\* copies the state exactly when no process_event call holds the state
\* lock, never during an account operation, and returns the state that was
\* stored then, which is the state stored when it returns unless a
\* process_event call has changed it in between.
C4_StateWaitsForCall ==
    /\ \A t \in Threads :
            /\ pc[t] = "state" => (ENABLED StateRead(t) <=> InFlight = {})
            /\ pc[t] = "state_return" =>
                    /\ returning[t].inFlight = {}
                    /\ ~returning[t].stale => returning[t].result = state
    /\ lastReturn.kind = "state" =>
            /\ lastReturn.inFlight = {}
            /\ ~lastReturn.stale => lastReturn.result = state

C4_Witness ==
    \E t, u \in Threads :
        /\ pc[t] = "state"
        /\ pc[u] = "call"
        /\ ~ENABLED StateRead(t)

\* C5: a process_event call writes the stored state at most once, in the
\* step that returns from a Complete; while the call processes its internal
\* states the stored state is the one of before the call; and state() only
\* ever copies, and then returns, the final state of the calls run so far,
\* one after the other.
C5_AtomicTransitions ==
    /\ [](\A t \in InFlight : state = pre[t])
    /\ [][\A t \in Threads :
            /\ (pc[t] = "state" /\ pc'[t] = "state_return") =>
                    /\ returning'[t].result = serial
                    /\ serial' = serial
            /\ (pc[t] = "state_return" /\ pc'[t] = "idle") =>
                    /\ lastReturn'.kind = "state"
                    /\ lastReturn'.result = returning[t].result]_vars
    /\ [][state' # state =>
            \E t \in InFlight :
                /\ pc[t] = "loop"
                /\ trans[t].t = "Complete"
                /\ state' = trans[t].p
                /\ pc'[t] = "drop_account"
                /\ returning'[t].result = Ok(state')]_vars

C5_Witness ==
    /\ Returned
    /\ Len(lastReturn.results) >= 2
    /\ lastReturn.post # lastReturn.pre
    /\ \E u \in Threads : pc[u] = "state"

\* C6, as claimed: when process_event returns Ok(s), the stored state is s
\* at the moment of the return.
C6_StoredAtReturn ==
    (lastReturn.kind = "process_event" /\ lastReturn.result.ok)
        => state = lastReturn.result.val

\* C6, amended: when a process_event call has its value Ok(s), the stored
\* state is s at the moment the call unlocks the state, on its way out; it
\* returns that value, and at the moment of the return the stored state is
\* still s unless another process_event call has changed it in between.
C6_ReturnedStateIsStored ==
    /\ [](\A t \in Returning :
            returning[t].result.ok => state = returning[t].result.val)
    /\ []((Returned /\ lastReturn.result.ok)
            => /\ lastReturn.post = lastReturn.result.val
               /\ state = lastReturn.result.val)
    /\ [][\A t \in Threads :
            (pc[t] = "return" /\ pc'[t] = "idle") =>
                /\ lastReturn'.kind = "process_event"
                /\ lastReturn'.result = returning[t].result
                /\ (lastReturn'.result.ok /\ ~returning[t].stale) =>
                        state' = lastReturn'.result.val]_vars

C6_Witness ==
    /\ Returned
    /\ lastReturn.result.ok
    /\ lastReturn.result.val = Connected
    /\ lastReturn.pre # Connected

\* C7: a failure of an account operation is never returned: the only errors
\* are InvalidStateTransition and StateMachineLogicError, and an event that
\* is valid for the stored state gives Ok(public state) whatever fails.
C7_FailuresAbsorbed ==
    Returned =>
        /\ ~lastReturn.result.ok =>
                lastReturn.result \in
                    {InvalidStateTransition, StateMachineLogicError}
        /\ lastReturn.event.type \in ValidEventTypes(lastReturn.pre) =>
                /\ lastReturn.result.ok
                /\ lastReturn.result.val \in FxaState

C7_Witness ==
    /\ Returned
    /\ lastReturn.result.ok
    /\ \E i \in 1..Len(lastReturn.results) : ~lastReturn.results[i].ok

\* C8: BeginOAuthFlow or BeginPairingFlow while Disconnected, the account
\* operation failing: process_event returns Ok(Disconnected) and the stored
\* state is Disconnected.
C8_CancelAfterFirstStep ==
    ( /\ Returned
      /\ lastReturn.pre = Disconnected
      /\ lastReturn.event.type \in {"BeginOAuthFlow", "BeginPairingFlow"}
      /\ Len(lastReturn.results) = 1
      /\ ~lastReturn.results[1].ok )
        => /\ lastReturn.result = Ok(Disconnected)
           /\ lastReturn.post = Disconnected
           /\ state = Disconnected

C8_Witness ==
    /\ Returned
    /\ lastReturn.pre = Disconnected
    /\ lastReturn.event.type = "BeginPairingFlow"
    /\ lastReturn.results = <<Err([err |-> "Authentication"])>>
    /\ lastReturn.result = Ok(Disconnected)

\* C9: BeginPairingFlow while Disconnected, the pairing operation returning
\* the URL u: process_event returns Authenticating{oauth_url: u} and that is
\* the stored state.
C9_PairingFlowSucceeds ==
    ( /\ Returned
      /\ lastReturn.pre = Disconnected
      /\ lastReturn.event.type = "BeginPairingFlow"
      /\ Len(lastReturn.results) = 1
      /\ lastReturn.results[1].ok )
        => /\ lastReturn.result =
                Ok(Authenticating(lastReturn.results[1].val.oauth_url))
           /\ lastReturn.post =
                Authenticating(lastReturn.results[1].val.oauth_url)

\* C10: BeginOAuthFlow while Disconnected, the operation returning the URL
\* u: process_event returns Authenticating{oauth_url: u} and the stored
\* state is Authenticating with exactly u.
C10_OAuthFlowSucceeds ==
    ( /\ Returned
      /\ lastReturn.pre = Disconnected
      /\ lastReturn.event.type = "BeginOAuthFlow"
      /\ Len(lastReturn.results) = 1
      /\ lastReturn.results[1].ok )
        => /\ lastReturn.result =
                Ok(Authenticating(lastReturn.results[1].val.oauth_url))
           /\ lastReturn.post =
                Authenticating(lastReturn.results[1].val.oauth_url)
           /\ state = Authenticating(lastReturn.results[1].val.oauth_url)

C10_Witness ==
    /\ Returned
    /\ lastReturn.pre = Disconnected
    /\ lastReturn.event.type = "BeginOAuthFlow"
    /\ lastReturn.results = <<Ok([oauth_url |-> "http://example.com/oauth-other"])>>
    /\ state = Authenticating("http://example.com/oauth-other")

\* A process_event(e) call of type `type` has just returned, that was made
\* with the public state of tag `tag` stored
ReturnedFrom(tag, type) ==
    /\ Returned
    /\ lastReturn.pre.tag = tag
    /\ lastReturn.event.type = type

\* The public error a failed account call converts to
IsAuthError(r) == ~r.ok /\ r.err.err = "Authentication"
IsOtherError(r) == ~r.ok /\ r.err.err # "Authentication"

\* C11: CompleteOAuthFlow while Authenticating calls complete_oauth_flow
\* first and initialize_device next, only if the first succeeded; when both
\* succeed the final state is Connected.
C11_CompleteThenInitializeDevice ==
    ReturnedFrom("Authenticating", "CompleteOAuthFlow") =>
        /\ lastReturn.calls \in
                {<<"complete_oauth_flow">>,
                 <<"complete_oauth_flow", "initialize_device">>}
        /\ Len(lastReturn.calls) = 2 <=> lastReturn.results[1].ok
        /\ (\A i \in 1..Len(lastReturn.results) : lastReturn.results[i].ok)
                => /\ lastReturn.result = Ok(Connected)
                   /\ state = Connected

C11_Witness ==
    /\ ReturnedFrom("Authenticating", "CompleteOAuthFlow")
    /\ lastReturn.calls = <<"complete_oauth_flow", "initialize_device">>
    /\ lastReturn.results = <<Ok(Unit), Ok(Unit)>>
    /\ state = Connected

\* C12: CancelOAuthFlow while Authenticating returns Disconnected and stores
\* it, and no account method is called.
C12_CancelOAuthFlow ==
    ReturnedFrom("Authenticating", "CancelOAuthFlow") =>
        /\ lastReturn.result = Ok(Disconnected)
        /\ lastReturn.post = Disconnected
        /\ state = Disconnected
        /\ lastReturn.calls = <<>>

C12_Witness ==
    /\ ReturnedFrom("Authenticating", "CancelOAuthFlow")
    /\ lastReturn.result = Ok(Disconnected)
    /\ lastReturn.calls = <<>>

\* The StateMachineTester was made for event `e` in the public state of tag
\* `tag`, stands at the internal state `sub` and has been fed an event
TesterAt(tag, e, sub) ==
    /\ tester.made
    /\ tester.public_state.tag = tag
    /\ tester.event = e
    /\ tester.state.sub = sub
    /\ tester.fed # NoInternalEvent

\* C13: Disconnect while Connected: whether disconnect succeeds or fails
\* with either kind of error, the transition completes with Disconnected,
\* which process_event then stores and returns.
C13_DisconnectNeverBlocked ==
    ( /\ TesterAt("Connected", Disconnect, "Disconnect")
      /\ tester.fed \in
            {DisconnectSuccess, CallError("Auth"), CallError("Other")} )
        => /\ tester.got = Complete(Disconnected)
           /\ LoopHead(tester.public_state, tester.got, 1).state = Disconnected
           /\ LoopHead(tester.public_state, tester.got, 1).result
                = Ok(Disconnected)

C13_Witness ==
    /\ TesterAt("Connected", Disconnect, "Disconnect")
    /\ tester.fed = CallError("Auth")
    /\ tester.got = Complete(Disconnected)

\* C14: CheckAuthorizationStatus while Connected, the authorization status
\* being not active: the machine moves to AuthIssues.
C14_InactiveGivesAuthIssues ==
    ( /\ ReturnedFrom("Connected", "CheckAuthorizationStatus")
      /\ lastReturn.results = <<Ok([active |-> FALSE])>> )
        => /\ lastReturn.result = Ok(AuthIssues)
           /\ lastReturn.post = AuthIssues

\* C15: CheckAuthorizationStatus while Connected: Connected when the check
\* answers active, Disconnected when it answers not active or fails.
C15_CheckAuthorization ==
    ReturnedFrom("Connected", "CheckAuthorizationStatus") =>
        /\ lastReturn.calls = <<"check_authorization_status">>
        /\ Len(lastReturn.results) = 1
        /\ lastReturn.result =
                IF lastReturn.results[1] = Ok([active |-> TRUE])
                THEN Ok(Connected)
                ELSE Ok(Disconnected)
        /\ state = lastReturn.result.val

C15_Witness ==
    /\ ReturnedFrom("Connected", "CheckAuthorizationStatus")
    /\ lastReturn.results = <<Ok([active |-> FALSE])>>
    /\ state = Disconnected

\* C16: Initialize while Uninitialized, the account reporting Disconnected:
\* the final state is Disconnected and get_auth_state is the one account
\* method called.
C16_InitializeDisconnected ==
    ( /\ ReturnedFrom("Uninitialized", "Initialize")
      /\ lastReturn.results[1] = Ok([auth_state |-> "Disconnected"]) )
        => /\ lastReturn.result = Ok(Disconnected)
           /\ state = Disconnected
           /\ lastReturn.calls = <<"get_auth_state">>

C16_Witness ==
    /\ ReturnedFrom("Uninitialized", "Initialize")
    /\ lastReturn.results = <<Ok([auth_state |-> "Disconnected"])>>
    /\ lastReturn.calls = <<"get_auth_state">>
    /\ state = Disconnected

\* C17: Initialize while Uninitialized, the account reporting Connected:
\* ensure_capabilities is called next; success gives Connected and an error
\* that is not an authentication error gives Disconnected, both without
\* check_authorization_status; that one is called exactly when
\* ensure_capabilities fails with an authentication error.
C17_InitializeConnected ==
    ( /\ ReturnedFrom("Uninitialized", "Initialize")
      /\ lastReturn.results[1] = Ok([auth_state |-> "Connected"]) )
        => /\ Len(lastReturn.calls) >= 2
           /\ lastReturn.calls[2] = "ensure_capabilities"
           /\ lastReturn.results[2].ok =>
                /\ lastReturn.result = Ok(Connected)
                /\ state = Connected
           /\ IsOtherError(lastReturn.results[2]) =>
                /\ lastReturn.result = Ok(Disconnected)
                /\ state = Disconnected
           /\ IF IsAuthError(lastReturn.results[2])
              THEN lastReturn.calls =
                    <<"get_auth_state", "ensure_capabilities",
                      "check_authorization_status">>
              ELSE lastReturn.calls = <<"get_auth_state", "ensure_capabilities">>

C17_Witness ==
    /\ ReturnedFrom("Uninitialized", "Initialize")
    /\ Len(lastReturn.results) = 2
    /\ lastReturn.results[1] = Ok([auth_state |-> "Connected"])
    /\ lastReturn.results[2] = Err([err |-> "Network"])
    /\ lastReturn.calls = <<"get_auth_state", "ensure_capabilities">>
    /\ state = Disconnected

\* C18: Initialize while Uninitialized, the account Connected,
\* ensure_capabilities failing with an authentication error: the
\* authorization check gives Connected when active, AuthIssues when not
\* active or when it fails.
C18_InitializeCheckAuthorization ==
    ( /\ ReturnedFrom("Uninitialized", "Initialize")
      /\ Len(lastReturn.results) >= 2
      /\ lastReturn.results[1] = Ok([auth_state |-> "Connected"])
      /\ IsAuthError(lastReturn.results[2]) )
        => /\ Len(lastReturn.results) = 3
           /\ lastReturn.calls[3] = "check_authorization_status"
           /\ lastReturn.result =
                IF lastReturn.results[3] = Ok([active |-> TRUE])
                THEN Ok(Connected)
                ELSE Ok(AuthIssues)
           /\ state = lastReturn.result.val

C18_Witness ==
    /\ ReturnedFrom("Uninitialized", "Initialize")
    /\ Len(lastReturn.results) = 3
    /\ lastReturn.results[3] = Err([err |-> "Network"])
    /\ state = AuthIssues

\* C19: Initialize while Uninitialized, the account reporting AuthIssues:
\* the final state is Connected, and get_auth_state is the one account
\* method called.
C19_InitializeAuthIssues ==
    ( /\ ReturnedFrom("Uninitialized", "Initialize")
      /\ lastReturn.results[1] = Ok([auth_state |-> "AuthIssues"]) )
        => /\ lastReturn.result = Ok(Connected)
           /\ state = Connected
           /\ lastReturn.calls = <<"get_auth_state">>

C19_Witness ==
    /\ ReturnedFrom("Uninitialized", "Initialize")
    /\ lastReturn.results = <<Ok([auth_state |-> "AuthIssues"])>>
    /\ state = Connected

\* C20: BeginOAuthFlow while AuthIssues gives Authenticating{oauth_url: u}
\* when the flow starts with URL u, and Ok(AuthIssues) with the state
\* unchanged when it fails; BeginPairingFlow while AuthIssues is an
\* InvalidStateTransition.
C20_Reauthenticate ==
    /\ ReturnedFrom("AuthIssues", "BeginOAuthFlow") =>
        /\ Len(lastReturn.results) = 1
        /\ lastReturn.calls = <<"begin_oauth_flow">>
        /\ lastReturn.result =
                IF lastReturn.results[1].ok
                THEN Ok(Authenticating(lastReturn.results[1].val.oauth_url))
                ELSE Ok(AuthIssues)
        /\ state = lastReturn.result.val
    /\ ReturnedFrom("AuthIssues", "BeginPairingFlow") =>
        /\ lastReturn.result = InvalidStateTransition
        /\ state = AuthIssues

C20_Witness ==
    /\ ReturnedFrom("AuthIssues", "BeginOAuthFlow")
    /\ lastReturn.results = <<Err([err |-> "Authentication"])>>
    /\ lastReturn.result = Ok(AuthIssues)
    /\ state = AuthIssues

(***************************************************************************)
(* The loop guard                                                          *)
(***************************************************************************)
\* The injected table answers Process for more than MAX_INTERNAL_TRANSITIONS
\* consecutive steps: a chain that long, or a cycle
LongTable(table) ==
    table.n > MAX_INTERNAL_TRANSITIONS \/ table.last.t = "Process"

\* What the call returns when the chain of the table ends within the bound
ChainResult(table, current_state) ==
    CASE table.last.t = "Complete" -> Ok(table.last.p)
      [] table.last.t = "Cancel" /\ table.n = 0 -> InvalidStateTransition
      [] table.last.t = "Cancel" /\ table.n > 0 -> Ok(current_state)

\* C21: when the transition logic answers Process for more than 20
\* consecutive steps of one process_event call, the call does not loop for
\* ever (every iteration counts one more invoked operation, and never more
\* than 20 are invoked); it returns StateMachineLogicError, and the stored
\* state is the one of before the call.
C21_LoopGuard ==
    (injected.made /\ LongTable(injected.table)) =>
        /\ injected.invoked <= MAX_INTERNAL_TRANSITIONS
        /\ injected.pc = "loop" => injected.count = injected.invoked
        /\ injected.pc = "done" =>
                /\ injected.result = StateMachineLogicError
                /\ injected.state = injected.pre

C21_Witness ==
    /\ injected.made
    /\ injected.table = [n |-> 3, last |-> Process(InjectedState(1))]
    /\ injected.pc = "done"
    /\ injected.pre = Connected
    /\ injected.result = StateMachineLogicError

\* C22: a machine on which no Initialize has succeeded stores Uninitialized,
\* and an event other than Initialize sent while Uninitialized is stored
\* returns InvalidStateTransition and leaves Uninitialized stored.
C22_InitializeFirst ==
    /\ lifetime.initialized = 0 => state = Uninitialized
    /\ ( /\ Returned
         /\ lastReturn.pre = Uninitialized
         /\ lastReturn.event.type # "Initialize" )
            => /\ lastReturn.result = InvalidStateTransition
               /\ lastReturn.post = Uninitialized
               /\ state = Uninitialized

C22_Witness ==
    /\ Returned
    /\ lastReturn.pre = Uninitialized
    /\ lastReturn.event = Disconnect
    /\ lastReturn.result = InvalidStateTransition
    /\ state = Uninitialized

\* C24: a thread that, from inside an account operation invoked by its
\* process_event call, calls state() or process_event again holds both
\* locks through the outer call and waits for one of them in the inner
\* call: the inner call never returns (the thread never moves again), and
\* the locks are never released.
C24_ReentrantCallDeadlocks ==
    /\ [](\A t \in Threads :
            pc[t] \in ReentrantPositions =>
                /\ stateLock = t
                /\ accountLock = t
                /\ ~ENABLED StateRead(t)
                /\ ~ENABLED LockAccount(t))
    /\ [][\A t \in Threads :
            pc[t] \in ReentrantPositions =>
                /\ pc'[t] = pc[t]
                /\ stateLock' = t
                /\ accountLock' = t]_vars

C24_Witness ==
    \E t, u \in Threads :
        /\ pc[t] = "reentrant_lock_account"
        /\ accountLock = t
        /\ internal_state[t].sub = "EnsureDeviceCapabilities"
        /\ pc[u] = "state"

\* C25: state() never changes the stored state, which changes only in the
\* step of a process_event call that completes it; so two state() calls that
\* return one after the other, with no process_event call storing a state
\* since either of them copied it, return the same value.
C25_StateIdempotent ==
    /\ [][\A t \in Threads :
            (pc[t] \in {"state", "state_return"} /\ pc'[t] # pc[t]) =>
                state' = state]_vars
    /\ [][state' # state =>
            \E t \in Threads :
                pc[t] = "loop" /\ pc'[t] = "drop_account"]_vars
    /\ [][( /\ lastReturn.kind = "state"
             /\ lastReturn'.kind = "state"
             /\ ~lastReturn.stale
             /\ ~lastReturn'.stale ) =>
            lastReturn'.result = lastReturn.result]_vars

C25_Witness ==
    \E u \in Threads :
        /\ lastReturn.kind = "state"
        /\ lastReturn.result = Connected
        /\ ~lastReturn.stale
        /\ lastReturn.thread # u
        /\ pc[u] = "state_return"
        /\ ~returning[u].stale

\* The success variant of InternalEvent that belongs to an internal
\* sub-step (types.rs:137-147, by name)
SuccessVariantOf(sub) ==
    CASE sub = "GetAuthState" -> "GetAuthStateSuccess"
      [] sub = "EnsureDeviceCapabilities" -> "EnsureDeviceCapabilitiesSuccess"
      [] sub = "BeginOAuthFlow" -> "BeginOAuthFlowSuccess"
      [] sub = "BeginPairingFlow" -> "BeginPairingFlowSuccess"
      [] sub = "CompleteOAuthFlow" -> "CompleteOAuthFlowSuccess"
      [] sub = "InitializeDevice" -> "InitializeDeviceSuccess"
      [] sub = "CheckAuthorizationStatus" -> "CheckAuthorizationStatusSuccess"
      [] sub = "Disconnect" -> "DisconnectSuccess"

\* The (sub-step, internal event) pairs of the transition table
\* (logic.rs:85-253): every sub-step with its own success variant, and with
\* CallError unless it is GetAuthState
InTable(self, internal_event) ==
    \/ internal_event.ev = SuccessVariantOf(self.sub)
    \/ /\ internal_event.ev = "CallError"
       /\ self.sub # "GetAuthState"

\* C26: whatever the account operation of a sub-step returns, the internal
\* event the driver feeds to transition is the sub-step's own success
\* variant or CallError, a pair of the transition table: the unmatched-pair
\* arm is not reached during a process_event call.
C26_MatchingInternalEvent ==
    \A t \in Threads :
        pc[t] = "call" =>
            \A r \in AccountCall(internal_state[t]) :
                LET internal_event ==
                        InternalEventOf(
                            process_internal_state(internal_state[t], r))
                IN  /\ internal_event.ev \in
                            {SuccessVariantOf(internal_state[t].sub),
                             "CallError"}
                    /\ InTable(internal_state[t], internal_event)

\* C27: transition is total: at every internal sub-step and for every
\* internal event it answers Process, Complete or Cancel, and for a pair
\* that is not in the transition table it answers Cancel.
C27_TransitionTotal ==
    tester.made =>
        /\ \A ie \in InternalEvent :
                LET tr == transition(tester.state, ie)
                IN  /\ tr.t \in {"Process", "Complete", "Cancel"}
                    /\ ~InTable(tester.state, ie) => tr = Cancel
        /\ tester.fed # NoInternalEvent =>
                /\ tester.got.t \in {"Process", "Complete", "Cancel"}
                /\ ( /\ tester.got.t # "Process"
                     /\ ~InTable(tester.state, tester.fed) )
                        => tester.got = Cancel

C27_Witness ==
    /\ TesterAt("Uninitialized", Initialize, "GetAuthState")
    /\ tester.fed = CallError("Other")
    /\ tester.got = Cancel

\* (In C28 the tester stands at the sub-step that answered `got`: the
\* answer is not the Process that brought the tester to the sub-step.)
\* C28, as claimed: the CheckAuthorizationStatus sub-steps of the
\* Uninitialized and of the Connected sub-machine complete alike, with
\* Connected when the status is active and with Disconnected when it is
\* not or when the check fails.
C28_SharedMapping ==
    ( /\ tester.made
      /\ tester.state.pub \in {"Uninitialized", "Connected"}
      /\ tester.state.sub = "CheckAuthorizationStatus"
      /\ tester.got.t # "Process"
      /\ tester.fed \in {CheckAuthorizationStatusSuccess(TRUE),
                          CheckAuthorizationStatusSuccess(FALSE),
                          CallError("Auth"), CallError("Other")} )
        => tester.got =
                IF tester.fed = CheckAuthorizationStatusSuccess(TRUE)
                THEN Complete(Connected)
                ELSE Complete(Disconnected)

\* C28, amended: the two sub-steps complete with Connected when the status
\* is active; when it is not, or when the check fails with either kind of
\* error, the one of the Uninitialized sub-machine completes with
\* AuthIssues and the one of the Connected sub-machine with Disconnected.
C28_SeparateMappings ==
    ( /\ tester.made
      /\ tester.state.pub \in {"Uninitialized", "Connected"}
      /\ tester.state.sub = "CheckAuthorizationStatus"
      /\ tester.got.t # "Process"
      /\ tester.fed \in {CheckAuthorizationStatusSuccess(TRUE),
                          CheckAuthorizationStatusSuccess(FALSE),
                          CallError("Auth"), CallError("Other")} )
        => tester.got =
                IF tester.fed = CheckAuthorizationStatusSuccess(TRUE)
                THEN Complete(Connected)
                ELSE IF tester.state.pub = "Uninitialized"
                     THEN Complete(AuthIssues)
                     ELSE Complete(Disconnected)

C28_Witness ==
    /\ TesterAt("Uninitialized", Initialize, "CheckAuthorizationStatus")
    /\ tester.fed = CheckAuthorizationStatusSuccess(FALSE)
    /\ tester.got = Complete(AuthIssues)

\* The one sub-step at which the kind of a CallError matters
KindMatters(self) ==
    self.pub = "Uninitialized" /\ self.sub = "EnsureDeviceCapabilities"

\* C29: at every internal sub-step but Uninitialized/EnsureDeviceCapabilities
\* transition answers CallError{Auth} and CallError{Other} alike; at
\* Uninitialized/EnsureDeviceCapabilities it answers them differently.
C29_ErrorKindAtOneStep ==
    tester.made =>
        /\ ( transition(tester.state, CallError("Auth"))
                = transition(tester.state, CallError("Other")) )
                <=> ~KindMatters(tester.state)
        /\ ( /\ tester.fed.ev = "CallError"
             /\ tester.got.t # "Process"
             /\ ~KindMatters(tester.state) )
                => tester.got =
                        transition(tester.state,
                                   CallError(IF tester.fed.kind = "Auth"
                                             THEN "Other" ELSE "Auth"))

C29_Witness ==
    /\ TesterAt("Uninitialized", Initialize, "EnsureDeviceCapabilities")
    /\ tester.fed = CallError("Auth")
    /\ tester.got.t = "Process"
    /\ tester.got.s.sub = "CheckAuthorizationStatus"
    /\ transition(tester.state, CallError("Other")) = Complete(Disconnected)

(***************************************************************************)
(* The public states the machine can come to                               *)
(***************************************************************************)
\* The public states a process_event call may leave stored, when it started
\* with current_state stored and its loop is at transition tr: one for every
\* way the account operations may turn out.
RECURSIVE Outcomes(_, _, _)
Outcomes(current_state, tr, steps) ==
    LET h == LoopHead(current_state, tr, steps) IN
    IF h.kind = "return"
    THEN {h.state}
    ELSE UNION {Outcomes(current_state, LoopTail(h.internal_state, r), h.count) :
                    r \in AccountCall(h.internal_state)}

\* The public states one call may lead to from public_state
NextStates(public_state) ==
    UNION {Outcomes(public_state, start_transition(public_state, e), 0) :
                e \in FxaEvent}

RECURSIVE Closure(_)
Closure(S) ==
    LET T == S \cup UNION {NextStates(p) : p \in S}
    IN  IF T = S THEN S ELSE Closure(T)

\* The public states some sequence of one or more calls leads to
ReachableFrom(public_state) == Closure(NextStates(public_state))

\* C23: each of Disconnected, Connected, AuthIssues and Authenticating is
\* revisitable: from every state the machine can come to after it has left
\* one of them, some sequence of events and outcomes of the account
\* operations leads back to it.
C23_AllRevisitable ==
    \A tag \in {"Disconnected", "Connected", "AuthIssues", "Authenticating"} :
        state.tag = tag =>
            \A q \in ReachableFrom(state) :
                q.tag # tag => \E r \in ReachableFrom(q) : r.tag = tag

\* C30: the loop bound is exactly 20 account operations for a process_event
\* call: no call invokes more than 20; a chain of at most 20 Process steps
\* that ends with Complete or Cancel returns normally, with every operation
\* of the chain invoked; and once a 21st Process step is produced the call
\* returns StateMachineLogicError with 20 operations invoked, the 21st not.
C30_ExactlyTwenty ==
    injected.made =>
        /\ injected.invoked <= MAX_INTERNAL_TRANSITIONS
        /\ (injected.pc = "done" /\ ~LongTable(injected.table)) =>
                /\ injected.invoked = injected.table.n
                /\ injected.result =
                        ChainResult(injected.table, injected.pre)
                /\ injected.state =
                        IF injected.table.last.t = "Complete"
                        THEN injected.table.last.p
                        ELSE injected.pre
        /\ (injected.pc = "done" /\ LongTable(injected.table)) =>
                /\ injected.invoked = MAX_INTERNAL_TRANSITIONS
                /\ injected.result = StateMachineLogicError

C30_Witness ==
    /\ injected.made
    /\ injected.table =
            [n |-> MAX_INTERNAL_TRANSITIONS, last |-> Complete(Connected)]
    /\ injected.pc = "done"
    /\ injected.pre = Disconnected
    /\ injected.invoked = MAX_INTERNAL_TRANSITIONS
    /\ injected.result = Ok(Connected)

(***************************************************************************)
(* Termination                                                             *)
(***************************************************************************)
\* C31: a process_event call, whatever the stored state and the event,
\* returns, provided the account operations it invokes return; and what it
\* returns is a public state or an error.
C31_CallTerminates ==
    /\ (pc[1] \in {"lock_account", "lock_state", "loop", "call",
                    "drop_account", "return"})
            ~> (pc[1] = "idle")
    /\ [](Returned =>
            \/ lastReturn.result.ok /\ lastReturn.result.val \in FxaState
            \/ lastReturn.result \in
                    {InvalidStateTransition, StateMachineLogicError})

C31_Witness ==
    /\ Returned
    /\ Len(lastReturn.calls) = 3
    /\ lastReturn.result = Ok(AuthIssues)

\* C37: threads that call process_event and state() on one machine do not
\* deadlock: a process_event call takes the account lock and then the state
\* lock, state() the state lock only, so that the holder of a lock never
\* waits for one; and every call returns.
C37_NoDeadlock ==
    /\ [](\A t \in Threads :
            /\ pc[t] \in {"lock_state", "loop", "call"} => accountLock = t
            /\ pc[t] \in {"loop", "call"} => stateLock = t
            /\ pc[t] = "drop_account" => (accountLock = t /\ stateLock # t)
            /\ pc[t] \in {"idle", "state", "state_return", "lock_account",
                         "return"} =>
                    (accountLock # t /\ stateLock # t))
    /\ []((\E t \in Threads : pc[t] # "idle") =>
            \E t \in Threads : ENABLED Proceed(t))
    /\ \A t \in Threads : (pc[t] # "idle") ~> (pc[t] = "idle")

C37_Witness ==
    \E t, u \in Threads :
        /\ pc[t] = "call"
        /\ pc[u] = "lock_account"
        /\ accountLock = t
        /\ stateLock = t

(***************************************************************************)
(* The shipped table as a whole                                            *)
(***************************************************************************)
\* C32: no process_event call invokes more than three account operations,
\* the longest chain being get_auth_state, ensure_capabilities,
\* check_authorization_status of Initialize; StateMachineLogicError is never
\* returned.
C32_AtMostThreeOperations ==
    /\ \A t \in Threads : Len(calls[t]) <= 3 /\ count[t] <= 3
    /\ Returned =>
            /\ Len(lastReturn.calls) <= 3
            /\ lastReturn.result # StateMachineLogicError
            /\ Len(lastReturn.calls) = 3 =>
                    /\ lastReturn.event = Initialize
                    /\ lastReturn.calls =
                            <<"get_auth_state", "ensure_capabilities",
                              "check_authorization_status">>

C32_Witness ==
    /\ Returned
    /\ lastReturn.calls =
            <<"get_auth_state", "ensure_capabilities",
              "check_authorization_status">>
    /\ lastReturn.result = Ok(Connected)

\* The pairs (before, after) of the tags of the public states that a call
\* may store one after the other
PublicEdges ==
    {<<"Uninitialized", "Disconnected">>, <<"Uninitialized", "Connected">>,
     <<"Uninitialized", "AuthIssues">>, <<"Disconnected", "Authenticating">>,
     <<"Authenticating", "Disconnected">>, <<"Authenticating", "Connected">>,
     <<"Connected", "Disconnected">>, <<"AuthIssues", "Authenticating">>}

\* C33: every change of the stored public state is one of the edges of
\* PublicEdges, and so is every pair of distinct states before and after one
\* process_event call.
C33_OnlyListedEdges ==
    /\ [][state' # state => <<state.tag, state'.tag>> \in PublicEdges]_vars
    /\ []((Returned /\ lastReturn.post # lastReturn.pre) =>
            <<lastReturn.pre.tag, lastReturn.post.tag>> \in PublicEdges)

C33_Witness ==
    /\ Returned
    /\ lastReturn.pre = AuthIssues
    /\ lastReturn.post.tag = "Authenticating"
    /\ state = lastReturn.post

\* C34: a stored state other than Uninitialized is never followed by
\* Uninitialized; at most one Initialize succeeds over the lifetime of the
\* machine, and an Initialize that finds another state stored returns
\* InvalidStateTransition.
C34_NeverUninitializedAgain ==
    /\ [][state # Uninitialized => state' # Uninitialized]_vars
    /\ [](lifetime.initialized <= 1)
    /\ [](lifetime.initialized = 1 <=> state # Uninitialized)
    /\ []((Returned /\ lastReturn.event = Initialize
                /\ lastReturn.pre # Uninitialized) =>
            /\ lastReturn.result = InvalidStateTransition
            /\ state = lastReturn.pre)

C34_Witness ==
    /\ Returned
    /\ lastReturn.event = Initialize
    /\ lastReturn.pre = Disconnected
    /\ lastReturn.result = InvalidStateTransition
    /\ lifetime.initialized = 1

\* C35: Initialize while Uninitialized: get_auth_state does not fail, and
\* whatever the later operations return the call succeeds with Disconnected,
\* Connected or AuthIssues, which is the stored state.
C35_InitializeLeavesUninitialized ==
    ReturnedFrom("Uninitialized", "Initialize") =>
        /\ lastReturn.calls[1] = "get_auth_state"
        /\ lastReturn.results[1].ok
        /\ lastReturn.result.ok
        /\ lastReturn.result.val \in {Disconnected, Connected, AuthIssues}
        /\ state = lastReturn.result.val

C35_Witness ==
    /\ ReturnedFrom("Uninitialized", "Initialize")
    /\ Len(lastReturn.results) = 2
    /\ IsOtherError(lastReturn.results[2])
    /\ lastReturn.result = Ok(Disconnected)

\* C36: threads that send Initialize to a new machine at the same time: once
\* one of the calls has returned, exactly one Initialize has succeeded and
\* get_auth_state was invoked exactly once; a call either is the one that
\* succeeded or returns InvalidStateTransition without an account call.
C36_OneInitializeWins ==
    /\ lifetime.initialized <= 1
    /\ lifetime.get_auth_state <= 1
    /\ lifetime.initialized = 1 => lifetime.get_auth_state = 1
    /\ (Returned /\ lastReturn.event = Initialize) =>
            /\ lifetime.initialized = 1
            /\ lifetime.get_auth_state = 1
            /\ \/ /\ lastReturn.result.ok
                  /\ lastReturn.pre = Uninitialized
                  /\ lastReturn.calls[1] = "get_auth_state"
               \/ /\ lastReturn.result = InvalidStateTransition
                  /\ lastReturn.pre # Uninitialized
                  /\ lastReturn.calls = <<>>

C36_Witness ==
    \E t, u \in Threads :
        /\ pc[t] = "call"
        /\ event[t] = Initialize
        /\ calls[t] = <<"get_auth_state">>
        /\ pc[u] = "lock_account"
        /\ event[u] = Initialize
        /\ lifetime.get_auth_state = 1

\* C38: the internal states a process_event call processes belong to the
\* sub-machine of the public state stored when the call started, and the
\* transition of an internal state on any internal event asks for no internal
\* state of another sub-machine.
C38_SubMachineClosure ==
    \A t \in Threads :
        /\ trans[t].t = "Process" => trans[t].s.pub = pre[t].tag
        /\ pc[t] = "call" =>
                /\ internal_state[t].pub = pre[t].tag
                /\ \A internal_event \in InternalEvent :
                        LET tr == transition(internal_state[t], internal_event)
                        IN  tr.t = "Process" =>
                                tr.s.pub = internal_state[t].pub

C38_Witness ==
    \E t \in Threads :
        /\ pc[t] = "call"
        /\ count[t] = 3
        /\ internal_state[t].pub = "Uninitialized"
        /\ pre[t] = Uninitialized

\* C39: CompleteOAuthFlow while Authenticating{oauth_url: u}, the last
\* operation invoked (complete_oauth_flow, or initialize_device after it)
\* failing: the call returns Ok(Authenticating{oauth_url: u}), the stored
\* state is unchanged, and it still accepts the same CompleteOAuthFlow and
\* CancelOAuthFlow.
C39_FailedCompletionKeepsAuthenticating ==
    ( /\ ReturnedFrom("Authenticating", "CompleteOAuthFlow")
      /\ ~lastReturn.results[Len(lastReturn.results)].ok ) =>
        /\ lastReturn.result = Ok(lastReturn.pre)
        /\ lastReturn.post = lastReturn.pre
        /\ state = lastReturn.pre
        /\ state \in {Authenticating(u) : u \in OAuthUrls}
        /\ start_transition(state, lastReturn.event).t = "Process"
        /\ start_transition(state, CancelOAuthFlow) = Complete(Disconnected)

C39_Witness ==
    /\ ReturnedFrom("Authenticating", "CompleteOAuthFlow")
    /\ lastReturn.calls = <<"complete_oauth_flow", "initialize_device">>
    /\ lastReturn.results[1].ok
    /\ IsAuthError(lastReturn.results[2])
    /\ state = Authenticating("http://example.com/oauth-other")

\* C40: a process_event call that returns InvalidStateTransition has invoked
\* no account operation: the event is one that is not valid for the stored
\* state, and it is rejected by the first iteration of the loop.
C40_RejectedBeforeAnyCall ==
    /\ (Returned /\ lastReturn.result = InvalidStateTransition) =>
            /\ lastReturn.calls = <<>>
            /\ lastReturn.results = <<>>
            /\ lastReturn.event.type \notin ValidEventTypes(lastReturn.pre)
    /\ \A t \in Threads :
            ( /\ pc[t] \in {"loop", "call"}
              /\ event[t].type \notin ValidEventTypes(pre[t]) ) =>
                /\ pc[t] = "loop"
                /\ trans[t] = Cancel
                /\ calls[t] = <<>>

C40_Witness ==
    /\ Returned
    /\ lastReturn.pre = Connected
    /\ lastReturn.event = Initialize
    /\ lastReturn.result = InvalidStateTransition
    /\ lastReturn.calls = <<>>
=============================================================================
